---- MODULE Spec2Model ----
(***************************************************************************)
(* Model of the tecton_access_policy resource of terraform-provider-tecton *)
(* (accessPolicyResource: Create, Read, Update, Delete, ImportState,       *)
(* GetFromTecton, ModifyRole, SliceDifference, UpdateWorkspace,            *)
(* UpdateAccessPolicy) running against a Tecton backend that holds the     *)
(* role grants of each principal.                                          *)
(*                                                                         *)
(* Every `tecton access-control assign-role / unassign-role` command is    *)
(* one step, so the backend is observable between any two mutation calls   *)
(* of a pass.  A handler's code before its first command and after its     *)
(* last command belongs to the step of that command.                       *)
(*                                                                         *)
(* Scope of a behaviour: one resource lifecycle.  The resource is acquired *)
(* either by Create or by ImportState followed by Read; an imported        *)
(* resource is then changed by one Update or one Delete.  A handler that   *)
(* ended with an error diagnostic may be invoked again with the same       *)
(* configuration, up to MaxAttempts invocations.                           *)
(*                                                                         *)
(* Strings that the code takes apart (ids, id prefixes) are sequences of   *)
(* one-character strings; the null / empty string is << >>.  Role and      *)
(* workspace names are only compared, and stay TLA+ strings; the empty     *)
(* workspace name is "".                                                   *)
(*                                                                         *)
(* Further specifications share the variables and the handlers of Spec:    *)
(* SpecOrder (the calls of one Update pass, by scope), SpecConfig (schema  *)
(* and config validators, then Create), SpecId (derived resource ids and   *)
(* their decoding on import), SpecRefresh (apply followed by Read),       *)
(* SpecEdit (an Update whose declaration names another principal),         *)
(* SpecRepeat (an Update whose get-roles answer lists a role twice),       *)
(* SpecDiff (UpdateWorkspace / SliceDifference on any two role lists),     *)
(* SpecFetch (GetFromTecton on any get-roles answer), SpecReads (Read      *)
(* after Read), SpecLive (Spec with ModifyRole commands that return),      *)
(* SpecConcurrent (two Updates for different principals at once),          *)
(* SpecWorkspace (the provider's Configure / ListWorkspaces and the        *)
(* tecton_workspace resource: Create, Read, Update, Delete, ImportState,   *)
(* GetWorkspace) and SpecLookup (one workspace Read on any prefetched      *)
(* lists).                                                                 *)
(*                                                                         *)
(* slices.SortFunc is modelled as the insertion sort it runs on slices of  *)
(* up to 12 elements.                                                      *)
(***************************************************************************)
EXTENDS Integers, Sequences, FiniteSets, TLC

\* ------------------------------------------------------------------ bounds
\* number of entries of validRoles that declarations and grants draw from
MaxRoles == 2
\* number of grants (admin included) the backend holds initially, all
\* principals together
MaxGrants == 1
\* number of role entries (all_workspaces and workspaces together) of one
\* declaration
MaxEntries == 2
\* invocations of one handler with the same configuration (first + retries)
MaxAttempts == 2

\* the bounds of the passes whose call order is examined: valid roles in
\* play, role grants the user holds initially (admin apart), role entries of
\* one declaration
MaxOrderRoles == 3
MaxOrderGrants == 1
MaxOrderEntries == 3

\* handler invocations of the tecton_workspace resource in one run
MaxWsOps == 3

\* the get-roles answers whose aggregation is examined on its own: number of
\* policy entries, and number of role records of all entries together
MaxFetchEntries == 2
MaxFetchRecords == 3

\* number of roles a get-roles answer lists a second time
MaxRepeats == 1

\* role entries in a declaration of two resources that are applied at once
MaxPeerEntries == 1

\* consecutive Reads of one resource
MaxReads == 3

\* length of each list of the workspace snapshots that are looked up
MaxSnapshotLen == 2

\* length of the role lists whose difference is examined on its own
MaxDiffLen == 3

\* length of the principal ids whose resource id is derived and taken apart
MaxIdLen == 2

\* --------------------------------------------------------------- constants
\* The valid roles, in order of increasing power
validRoles == <<"viewer", "operator", "editor", "owner">>

RoleNames == {validRoles[i] : i \in 1..(IF MaxRoles < Len(validRoles) THEN MaxRoles ELSE Len(validRoles))}

\* workspaces known to the backend
WsNames == {"dev", "prod"}

UserPrefix == <<"u", "s", "e", "r", "-">>
ServicePrefix == <<"s", "e", "r", "v", "i", "c", "e", "-">>

\* principal ids in play: one user, one service account
UserIds == {<<"u", "1">>}
ServiceIds == {<<"s", "1">>}

\* ids handed to `terraform import`
ImportIds == {UserPrefix \o u : u \in UserIds} \cup {ServicePrefix \o s : s \in ServiceIds}
               \cup {<<"t", "e", "a", "m", "-", "1">>}

\* --------------------------------------------------------- framework types
\* types.Bool: null, or a known value
BoolNull == [known |-> FALSE, value |-> FALSE]
BoolValue(b) == [known |-> TRUE, value |-> b]
ValueBool(x) == x.known /\ x.value
Bools == {BoolNull, BoolValue(FALSE), BoolValue(TRUE)}

\* strings.HasPrefix / strings.TrimPrefix
HasPrefix(s, p) == Len(s) >= Len(p) /\ SubSeq(s, 1, Len(p)) = p

RECURSIVE TrimPrefix_TrimLeft(_, _)
\* strings.TrimLeft in the place of strings.TrimPrefix: p is taken as a set
\* of characters and every leading character of s in it is removed
TrimPrefix_TrimLeft(s, p) ==
  IF s # <<>> /\ \E i \in DOMAIN p : p[i] = Head(s)
    THEN TrimPrefix_TrimLeft(Tail(s), p)
    ELSE s

TrimPrefix(s, p) == IF HasPrefix(s, p) THEN SubSeq(s, Len(p) + 1, Len(s)) ELSE s

Range(s) == {s[i] : i \in DOMAIN s}

\* all orders in which a Go map with key set S may be iterated
Perms(S) == {s \in [1..Cardinality(S) -> S] : \A i, j \in 1..Cardinality(S) : i # j => s[i] # s[j]}

\* an attribute of a configuration: null (not written), or a known value
AttrNull(zero) == [known |-> FALSE, value |-> zero]
AttrValue(v) == [known |-> TRUE, value |-> v]

\* a zero-valued accessPolicyResourceModel (every attribute null)
NullModel ==
  [ID |-> <<>>, LastUpdated |-> 0, UserID |-> <<>>, ServiceAccountID |-> <<>>,
   Admin |-> BoolNull, AllWorkspaces |-> <<>>, Workspaces |-> <<>>]

\* a zero-valued workspaceResourceModel
NullWorkspace == [ID |-> "", LastUpdated |-> 0, Name |-> "", Live |-> BoolNull]

\* m[k] of a Go map: the zero value when the key is absent
MapGet(m, k) == IF k \in DOMAIN m THEN m[k] ELSE <<>>

\* no resource recorded in the Terraform state
NoState == [none |-> TRUE]

\* ----------------------------------------------------------------- backend
\* the principal a tecton command addresses: --user wins over --service-account
PrincipalKey(userID, serviceAccountID) ==
  IF userID # <<>> THEN <<"user", userID>> ELSE <<"service", serviceAccountID>>

Principals == {<<"user", u>> : u \in UserIds} \cup {<<"service", s>> : s \in ServiceIds}

NoGrants == [admin |-> FALSE, org |-> {}, ws |-> [w \in WsNames |-> {}]]

GrantCount(g) ==
  (IF g.admin THEN 1 ELSE 0) + Cardinality(g.org)
    + Cardinality({<<w, r>> \in WsNames \X UNION {g.ws[v] : v \in WsNames} : r \in g.ws[w]})

\* every way to hold at most n grants
GrantSets(n) ==
  {g \in [admin : BOOLEAN, org : SUBSET RoleNames, ws : [WsNames -> SUBSET RoleNames]] :
      GrantCount(g) <= n}

\* One `tecton access-control get-roles --json-out` answer: an ORGANIZATION
\* entry and one WORKSPACE entry per workspace, the roles of an entry in the
\* order orgOrder / wsOrder.  An entry without roles is listed only when
\* withEmpty.
WsList == CHOOSE s \in Perms(WsNames) : TRUE

\* tectonGetRolesRoleGranted: a role and the assignment types of its sources
RoleGranted(role, sources) == [Role |-> role, AssignmentSources |-> sources]

\* the roles of `order`, each one assigned directly
DirectRoles(order) == [i \in 1..Len(order) |-> RoleGranted(order[i], <<"DIRECT">>)]

GetRolesAnswer(orgOrder, wsOrder, withEmpty) ==
  LET orgEntry == [ResourceType |-> "ORGANIZATION", WorkspaceName |-> "", RolesGranted |-> DirectRoles(orgOrder)]
      wsEntry(w) == [ResourceType |-> "WORKSPACE", WorkspaceName |-> w, RolesGranted |-> DirectRoles(wsOrder[w])]
      keep(e) == withEmpty \/ e.RolesGranted # <<>>
  IN  SelectSeq(<<orgEntry>> \o [i \in 1..Len(WsList) |-> wsEntry(WsList[i])], keep)

GetRolesAnswers(g) ==
  {GetRolesAnswer(orgOrder, wsOrder, withEmpty) :
      orgOrder \in Perms(g.org \cup (IF g.admin THEN {"admin"} ELSE {})),
      wsOrder \in {f \in [WsNames -> UNION {Perms(g.ws[v]) : v \in WsNames}] :
                      \A w \in WsNames : f[w] \in Perms(g.ws[w])},
      withEmpty \in BOOLEAN}

\* what the command prints: a failure, text that is not the expected JSON,
\* or an answer
GetRolesOutputs(g) ==
  {[status |-> "failed", policies |-> <<>>], [status |-> "unparsable", policies |-> <<>>]}
    \cup {[status |-> "ok", policies |-> a] : a \in GetRolesAnswers(g)}

\* effect of a successful assign-role / unassign-role command on the grants
\* of the addressed principal
ApplyRole(g, role, workspace, grant) ==
  IF workspace = ""
    THEN IF role = "admin"
           THEN [g EXCEPT !.admin = grant]
           ELSE [g EXCEPT !.org = IF grant THEN @ \cup {role} ELSE @ \ {role}]
    ELSE [g EXCEPT !.ws[workspace] = IF grant THEN @ \cup {role} ELSE @ \ {role}]

\* ------------------------------------------------------- accessPolicyResource
\* The arguments of one ModifyRole call
Call(userID, serviceAccountID, role, workspace, grant) ==
  [userID |-> userID, serviceAccountID |-> serviceAccountID, role |-> role,
   workspace |-> workspace, grant |-> grant]

\* ModifyRole runs no command when neither id is set
ModifyRoleHasID(c) == c.userID # <<>> \/ c.serviceAccountID # <<>>

\* SliceDifference with the test inverted: the elements of a that are in b
SliceDifference_Found(a, b) ==
  LET mb == Range(b)
      found(x) == x \in mb
  IN  SelectSeq(a, found)

\* SliceDifference without the lookup in b: every element of a is returned
SliceDifference_KeepAll(a, b) == a

\* Returns elements that are in a that are not in b
SliceDifference(a, b) ==
  LET mb == Range(b)
      notFound(x) == x \notin mb
  IN  SelectSeq(a, notFound)

\* UpdateWorkspace without its second loop: no role is removed
UpdateWorkspace_GrantOnly(userID, serviceAccountID, workspace, planRoles, stateRoles) ==
  LET rolesToBeAdded == SliceDifference(planRoles, stateRoles)
  IN  [i \in 1..Len(rolesToBeAdded) |->
          Call(userID, serviceAccountID, rolesToBeAdded[i], workspace, TRUE)]

\* UpdateWorkspace with its two loops swapped: the old roles are removed
\* before the new ones are applied
UpdateWorkspace_RevokeFirst(userID, serviceAccountID, workspace, planRoles, stateRoles) ==
  LET rolesToBeAdded == SliceDifference(planRoles, stateRoles)
      rolesToBeDeleted == SliceDifference(stateRoles, planRoles)
  IN  [i \in 1..Len(rolesToBeDeleted) |->
          Call(userID, serviceAccountID, rolesToBeDeleted[i], workspace, FALSE)]
      \o [i \in 1..Len(rolesToBeAdded) |->
          Call(userID, serviceAccountID, rolesToBeAdded[i], workspace, TRUE)]

\* The calls UpdateWorkspace issues when none of them fails: the roles to be
\* added first, then the roles to be deleted
UpdateWorkspace(userID, serviceAccountID, workspace, planRoles, stateRoles) ==
  LET rolesToBeAdded == SliceDifference(planRoles, stateRoles)
      rolesToBeDeleted == SliceDifference(stateRoles, planRoles)
  IN  [i \in 1..Len(rolesToBeAdded) |->
          Call(userID, serviceAccountID, rolesToBeAdded[i], workspace, TRUE)]
      \o [i \in 1..Len(rolesToBeDeleted) |->
          Call(userID, serviceAccountID, rolesToBeDeleted[i], workspace, FALSE)]

RECURSIVE UpdateWorkspaces(_, _, _)
\* the UpdateWorkspace calls of one `for ws := range` loop that visits the
\* workspaces in the order wsOrder
UpdateWorkspaces(wsOrder, plan, state) ==
  IF wsOrder = <<>> THEN <<>>
  ELSE UpdateWorkspace(plan.UserID, plan.ServiceAccountID, Head(wsOrder),
                       MapGet(plan.Workspaces, Head(wsOrder)),
                       MapGet(state.Workspaces, Head(wsOrder)))
       \o UpdateWorkspaces(Tail(wsOrder), plan, state)

\* UpdateAccessPolicy that handles the workspaces before all_workspaces
UpdateAccessPolicy_WorkspacesFirst(plan, state, planOrder, stateOrder) ==
  (IF plan.Admin # state.Admin
     THEN <<Call(plan.UserID, plan.ServiceAccountID, "admin", "", ValueBool(plan.Admin))>>
     ELSE <<>>)
  \o UpdateWorkspaces(planOrder, plan, state)
  \o UpdateWorkspaces(stateOrder, plan, state)
  \o UpdateWorkspace(plan.UserID, plan.ServiceAccountID, "", plan.AllWorkspaces, state.AllWorkspaces)

\* UpdateAccessPolicy without its last loop: the workspaces that only the
\* state names are not handled
UpdateAccessPolicy_PlanOnly(plan, state, planOrder, stateOrder) ==
  (IF plan.Admin # state.Admin
     THEN <<Call(plan.UserID, plan.ServiceAccountID, "admin", "", ValueBool(plan.Admin))>>
     ELSE <<>>)
  \o UpdateWorkspace(plan.UserID, plan.ServiceAccountID, "", plan.AllWorkspaces, state.AllWorkspaces)
  \o UpdateWorkspaces(planOrder, plan, state)

\* UpdateAccessPolicy without handledWorkspaces: the last loop visits every
\* workspace of the state, those of the plan first
UpdateAccessPolicy_NoHandled(plan, state, planOrder, stateOrder) ==
  LET inState(w) == w \in DOMAIN state.Workspaces
  IN  (IF plan.Admin # state.Admin
         THEN <<Call(plan.UserID, plan.ServiceAccountID, "admin", "", ValueBool(plan.Admin))>>
         ELSE <<>>)
      \o UpdateWorkspace(plan.UserID, plan.ServiceAccountID, "", plan.AllWorkspaces, state.AllWorkspaces)
      \o UpdateWorkspaces(planOrder, plan, state)
      \o UpdateWorkspaces(SelectSeq(planOrder, inState) \o stateOrder, plan, state)

\* The calls UpdateAccessPolicy issues when none of them fails.  planOrder is
\* the order in which the range over plan.Workspaces yields its keys,
\* stateOrder the order in which the range over state.Workspaces yields the
\* keys that are not handled yet.
UpdateAccessPolicy(plan, state, planOrder, stateOrder) ==
  (IF plan.Admin # state.Admin
     THEN <<Call(plan.UserID, plan.ServiceAccountID, "admin", "", ValueBool(plan.Admin))>>
     ELSE <<>>)
  \o UpdateWorkspace(plan.UserID, plan.ServiceAccountID, "", plan.AllWorkspaces, state.AllWorkspaces)
  \o UpdateWorkspaces(planOrder, plan, state)
  \o UpdateWorkspaces(stateOrder, plan, state)

\* the iteration orders of the two loops of UpdateAccessPolicy
PlanOrders(plan) == Perms(DOMAIN plan.Workspaces)
StateOrders(plan, state) == Perms(DOMAIN state.Workspaces \ DOMAIN plan.Workspaces)

\* roleToLevel and cmp of GetFromTecton
RoleToLevel(role) == CHOOSE i \in 1..Len(validRoles) : validRoles[i] = role
IsValidRole(role) == \E i \in 1..Len(validRoles) : validRoles[i] = role
\* cmp that puts a role that is not in roleToLevel below every valid role
Cmp_UnknownLowest(lhs, rhs) ==
  (IF IsValidRole(lhs) THEN RoleToLevel(lhs) ELSE 0)
    - (IF IsValidRole(rhs) THEN RoleToLevel(rhs) ELSE 0)

Cmp(lhs, rhs) ==
  IF ~IsValidRole(lhs) \/ ~IsValidRole(rhs) THEN 0
  ELSE RoleToLevel(lhs) - RoleToLevel(rhs)

RECURSIVE SinkDown(_, _)
\* inner loop of the insertion sort: data[j] moves down while it compares
\* less than its left neighbour
SinkDown(data, j) ==
  IF j > 1 /\ Cmp(data[j], data[j - 1]) < 0
    THEN SinkDown([data EXCEPT ![j] = data[j - 1], ![j - 1] = data[j]], j - 1)
    ELSE data

RECURSIVE InsertionSort(_, _)
InsertionSort(data, i) ==
  IF i > Len(data) THEN data ELSE InsertionSort(SinkDown(data, i), i + 1)

\* slices.SortFunc(roles, cmp) on the short role lists of a policy
SortFunc(roles) == InsertionSort(roles, 2)

RECURSIVE MapRoles_DirectOnly(_, _, _)
\* MapRoles that skips a role none of whose assignment sources is DIRECT
MapRoles_DirectOnly(state, policy, k) ==
  IF k > Len(policy.RolesGranted) THEN state
  ELSE LET role == policy.RolesGranted[k].Role
           sources == policy.RolesGranted[k].AssignmentSources
           next ==
             IF \A i \in DOMAIN sources : sources[i] # "DIRECT" THEN state
             ELSE IF policy.ResourceType = "ORGANIZATION"
               THEN IF role = "admin"
                      THEN [state EXCEPT !.Admin = BoolValue(TRUE)]
                      ELSE [state EXCEPT !.AllWorkspaces = Append(@, role)]
               ELSE IF policy.ResourceType = "WORKSPACE"
                 THEN [state EXCEPT !.Workspaces =
                         [w \in DOMAIN @ \cup {policy.WorkspaceName} |->
                            IF w = policy.WorkspaceName
                              THEN Append(MapGet(@, w), role) ELSE @[w]]]
                 ELSE state
       IN  MapRoles_DirectOnly(next, policy, k + 1)

RECURSIVE MapRoles(_, _, _)
\* inner loop of "Map states to objects": the roles of one policy entry
MapRoles(state, policy, k) ==
  IF k > Len(policy.RolesGranted) THEN state
  ELSE LET role == policy.RolesGranted[k].Role
           next ==
             IF policy.ResourceType = "ORGANIZATION"
               THEN IF role = "admin"
                      THEN [state EXCEPT !.Admin = BoolValue(TRUE)]
                      ELSE [state EXCEPT !.AllWorkspaces = Append(@, role)]
               ELSE IF policy.ResourceType = "WORKSPACE"
                 THEN [state EXCEPT !.Workspaces =
                         [w \in DOMAIN @ \cup {policy.WorkspaceName} |->
                            IF w = policy.WorkspaceName
                              THEN Append(MapGet(@, w), role) ELSE @[w]]]
                 ELSE state
       IN  MapRoles(next, policy, k + 1)

RECURSIVE MapPolicies(_, _, _)
\* outer loop of "Map states to objects"
MapPolicies(state, policies, k) ==
  IF k > Len(policies) THEN state
  ELSE MapPolicies(MapRoles(state, policies[k], 1), policies, k + 1)

RECURSIVE RecordCount(_)
\* number of role grant records (roles_granted elements) of a get-roles answer
RecordCount(policies) ==
  IF policies = <<>> THEN 0
  ELSE Len(Head(policies).RolesGranted) + RecordCount(Tail(policies))

\* the orders in which an entry may list the roles S when up to MaxRepeats of
\* them are listed twice
RepeatedOrders(S) ==
  {l \in UNION {[1..n -> S] : n \in Cardinality(S)..(Cardinality(S) + MaxRepeats)} :
      /\ Range(l) = S
      /\ \A r \in S : Cardinality({i \in DOMAIN l : l[i] = r}) <= 2}

\* the answers for the grants g in which roles may be listed twice
RepeatedAnswers(g) ==
  {a \in {GetRolesAnswer(orgOrder, wsOrder, FALSE) :
            orgOrder \in RepeatedOrders(g.org \cup (IF g.admin THEN {"admin"} ELSE {})),
            wsOrder \in {f \in [WsNames -> UNION {RepeatedOrders(g.ws[v]) : v \in WsNames}] :
                            \A w \in WsNames : f[w] \in RepeatedOrders(g.ws[w])}} :
      RecordCount(a) <= GrantCount(g) + MaxRepeats}

\* GetFromTecton(state) when the command prints `output`: the returned
\* (bool, error) and the state object afterwards
\* GetFromTecton that clears the fields before it runs the command
GetFromTecton_ClearFirst(state, output) ==
  LET cleared == [state EXCEPT !.Admin = BoolValue(FALSE),
                               !.AllWorkspaces = <<>>,
                               !.Workspaces = <<>>]
  IN  IF state.UserID = <<>> /\ state.ServiceAccountID = <<>>
        THEN [exists |-> FALSE, err |-> TRUE, state |-> cleared]
      ELSE IF output.status # "ok"
        THEN [exists |-> FALSE, err |-> TRUE, state |-> cleared]
      ELSE LET mapped == MapPolicies(cleared, output.policies, 1)
               sorted == [mapped EXCEPT !.AllWorkspaces = SortFunc(@),
                                        !.Workspaces = [w \in DOMAIN @ |-> SortFunc(@[w])]]
           IN  [exists |-> Len(output.policies) > 0, err |-> FALSE, state |-> sorted]

GetFromTecton(state, output) ==
  IF state.UserID = <<>> /\ state.ServiceAccountID = <<>>
    THEN [exists |-> FALSE, err |-> TRUE, state |-> state]
  ELSE IF output.status # "ok"
    THEN [exists |-> FALSE, err |-> TRUE, state |-> state]
  ELSE LET cleared == [state EXCEPT !.Admin = BoolValue(FALSE),
                                    !.AllWorkspaces = <<>>,
                                    !.Workspaces = <<>>]
           mapped == MapPolicies(cleared, output.policies, 1)
           sorted == [mapped EXCEPT !.AllWorkspaces = SortFunc(@),
                                    !.Workspaces = [w \in DOMAIN @ |-> SortFunc(@[w])]]
       IN  [exists |-> Len(output.policies) > 0, err |-> FALSE, state |-> sorted]

\* -------------------------------------------------------------------- state
VARIABLES
  tecton,    \* backend: the grants of every principal
  tfstate,   \* the resource as recorded in the Terraform state, or NoState
  op,        \* the handler invoked last ("none" before the first)
  pc,        \* "idle", or "running" between two ModifyRole calls of a pass
  plan,      \* the plan object of the pass (emptyPlan in Delete)
  state,     \* the state object GetFromTecton filled at the start of the handler
  base,      \* the object UpdateAccessPolicy diffs the plan against
  queue,     \* the ModifyRole calls the pass still has to issue
  issued,    \* the ModifyRole calls issued by this invocation, with their results
  diags,     \* summaries of the error diagnostics of this invocation
  exists,    \* the bool GetFromTecton returned to this invocation
  records,   \* number of role grant records in the get-roles answer parsed
             \* by this invocation
  attempt,   \* number of this invocation of the handler with this configuration
  applied,   \* calls that succeeded in earlier invocations with this configuration
  before,    \* the backend when this invocation started
  clock,     \* time.Now()
  fetches,   \* number of get-roles commands this invocation has run
  config,    \* the declaration Terraform validated last
  answer,    \* the get-roles output of the fetch that is examined on its own
  peer,      \* the pass of another resource, for another principal, that runs
             \* at the same time as this one
  workspaces,     \* backend: the live and the development workspaces
  WorkspaceData,  \* workspaceResource.WorkspaceData, the prefetched workspace list
  wsState,   \* the tecton_workspace resource as recorded in the Terraform state
  wsOp,      \* the workspaceResource handler invoked last
  wsPlan,    \* the plan object of that handler
  wsDiags,   \* summaries of the error diagnostics of that handler
  wsCmds,    \* the `tecton workspace` commands that handler has run
  wsBefore   \* backend, prefetched list and recorded state when it started

\* the variables of the tecton_workspace resource and of the provider
wsVars == <<workspaces, WorkspaceData, wsState, wsOp, wsPlan, wsDiags, wsCmds, wsBefore>>

vars == <<tecton, tfstate, op, pc, plan, state, base, queue, issued, diags, exists,
          records, attempt, applied, before, clock, fetches, config, answer, peer, wsVars>>

\* the outputs the get-roles command of GetFromTecton(st) may print; no
\* command is run ("none") when the object names no principal
RunGetRoles(st) ==
  IF st.UserID = <<>> /\ st.ServiceAccountID = <<>>
    THEN {[status |-> "none", policies |-> <<>>]}
    ELSE GetRolesOutputs(tecton[PrincipalKey(st.UserID, st.ServiceAccountID)])

\* no fetch is examined on its own
NoAnswer == [status |-> "none", policies |-> <<>>]

\* no other resource is being applied
NoPeer == [pc |-> "none", plan |-> NullModel, state |-> NullModel, queue |-> <<>>,
           issued |-> <<>>, diags |-> {}, before |-> <<>>]

\* number of commands behind an output
Fetches(output) == IF output.status = "none" THEN 0 ELSE 1

\* --------------------------------------------------------- declarations
RECURSIVE SumLen(_, _)
SumLen(m, keys) ==
  IF keys = {} THEN 0
  ELSE LET k == CHOOSE x \in keys : TRUE IN Len(m[k]) + SumLen(m, keys \ {k})

\* role lists the schema validators accept: valid roles, no duplicates
RoleLists ==
  UNION {Perms(S) : S \in {T \in SUBSET RoleNames : Cardinality(T) <= MaxEntries}}

\* declarations that pass the schema and ConfigValidators: exactly one of
\* user_id / service_account_id
Plans ==
  {pl \in [ID : {<<>>}, LastUpdated : {0},
           UserID : UserIds \cup {<<>>}, ServiceAccountID : ServiceIds \cup {<<>>},
           Admin : Bools, AllWorkspaces : RoleLists,
           Workspaces : UNION {[d -> RoleLists] : d \in SUBSET WsNames}] :
      /\ (pl.UserID = <<>>) # (pl.ServiceAccountID = <<>>)
      /\ Len(pl.AllWorkspaces) + SumLen(pl.Workspaces, DOMAIN pl.Workspaces) <= MaxEntries}

ModelPrincipal(m) == PrincipalKey(m.UserID, m.ServiceAccountID)

\* ---- validation of a declaration (Schema validators and ConfigValidators)
\* nothing is written in the resource block
NullConfig ==
  [user_id |-> AttrNull(<<>>), service_account_id |-> AttrNull(<<>>), admin |-> BoolNull,
   all_workspaces |-> AttrNull(<<>>), workspaces |-> AttrNull(<<>>)]

\* the characters of the strings in play that are letters or digits
Alphanumerics == {"a", "c", "e", "i", "m", "r", "s", "t", "u", "v", "1"}

\* stringvalidator.RegexMatches with ^[class]+$
RegexMatches(s, class) == s # <<>> /\ \A i \in DOMAIN s : s[i] \in class

\* listvalidator.ValueStringsAre(stringvalidator.OneOf(validRoles...))
ValueStringsAreOneOf(list) == \A i \in DOMAIN list : IsValidRole(list[i])

\* listvalidator.UniqueValues switched off
UniqueValues_Off(list) == TRUE

\* listvalidator.UniqueValues
UniqueValues(list) == \A i, j \in DOMAIN list : i # j => list[i] # list[j]

\* resourcevalidator.ExactlyOneOf / AtLeastOneOf: the attributes that are set
Configured(attrs) == {i \in DOMAIN attrs : attrs[i].known}

\* the error summaries of the validators; an attribute's validators are run
\* on a value that is set
AttributeErrors(cfg) ==
  (IF cfg.user_id.known
      /\ ~RegexMatches(cfg.user_id.value, Alphanumerics \cup {"-", "_", ".", "@"})
     THEN {"Invalid Attribute Value Match"} ELSE {})
  \cup (IF cfg.service_account_id.known
          /\ ~RegexMatches(cfg.service_account_id.value, Alphanumerics)
         THEN {"Invalid Attribute Value Match"} ELSE {})
  \cup (IF cfg.all_workspaces.known /\ ~ValueStringsAreOneOf(cfg.all_workspaces.value)
         THEN {"Invalid Attribute Value Match"} ELSE {})
  \cup (IF cfg.all_workspaces.known /\ ~UniqueValues(cfg.all_workspaces.value)
         THEN {"Duplicate List Value"} ELSE {})
  \cup (IF cfg.workspaces.known
          /\ \E w \in DOMAIN cfg.workspaces.value :
               ~ValueStringsAreOneOf(cfg.workspaces.value[w])
         THEN {"Invalid Attribute Value Match"} ELSE {})
  \cup (IF cfg.workspaces.known
          /\ \E w \in DOMAIN cfg.workspaces.value : ~UniqueValues(cfg.workspaces.value[w])
         THEN {"Duplicate List Value"} ELSE {})

ConfigValidators(cfg) ==
  LET ids == Configured(<<cfg.user_id, cfg.service_account_id>>)
      grants == Configured(<<cfg.admin, cfg.all_workspaces, cfg.workspaces>>)
  IN  (IF Cardinality(ids) = 0 THEN {"Missing Attribute Configuration"}
       ELSE IF Cardinality(ids) > 1 THEN {"Invalid Attribute Combination"}
       ELSE {})
      \cup (IF grants = {} THEN {"Missing Attribute Configuration"} ELSE {})

\* req.Plan.Get(ctx, &plan): a null attribute becomes the zero value
PlanGet(cfg) ==
  [NullModel EXCEPT !.UserID = cfg.user_id.value,
                    !.ServiceAccountID = cfg.service_account_id.value,
                    !.Admin = cfg.admin,
                    !.AllWorkspaces = cfg.all_workspaces.value,
                    !.Workspaces = cfg.workspaces.value]

\* what a role list of a declaration may hold: valid roles, and admin, which
\* is not one
MaxConfigLen == 2
ConfigRoles == RoleNames \cup {"admin"}
ConfigRoleLists == UNION {[1..n -> ConfigRoles] : n \in 0..MaxConfigLen}

\* the declarations Terraform is given, valid or not
Configs ==
  [user_id : {AttrNull(<<>>)} \cup {AttrValue(u) : u \in UserIds},
   service_account_id : {AttrNull(<<>>)} \cup {AttrValue(a) : a \in ServiceIds},
   admin : Bools,
   all_workspaces : {AttrNull(<<>>)} \cup {AttrValue(l) : l \in ConfigRoleLists},
   workspaces : {AttrNull(<<>>), AttrValue(<<>>)}
                  \cup {AttrValue([w \in {"dev"} |-> l]) : l \in ConfigRoleLists}]

\* the provider is not configured and no tecton_workspace resource is managed;
\* the workspaces that access policies name exist
WorkspaceIdle ==
  /\ workspaces = [Lives |-> {"prod"}, Devs |-> {"dev"}]
  /\ WorkspaceData = [Lives |-> <<>>, Devs |-> <<>>]
  /\ wsState = NoState
  /\ wsOp = "none"
  /\ wsPlan = NullWorkspace
  /\ wsDiags = {}
  /\ wsCmds = <<>>
  /\ wsBefore = [workspaces |-> workspaces, WorkspaceData |-> WorkspaceData,
                 state |-> wsState]

\* ----------------------------------------------------------------- Init
Init ==
  /\ tecton \in {t \in [Principals -> GrantSets(MaxGrants)] :
                   \A p, q \in Principals :
                      p # q => GrantCount(t[p]) + GrantCount(t[q]) <= MaxGrants}
  /\ tfstate = NoState
  /\ op = "none"
  /\ pc = "idle"
  /\ plan = NullModel
  /\ state = NullModel
  /\ base = NullModel
  /\ queue = <<>>
  /\ issued = <<>>
  /\ diags = {}
  /\ exists = FALSE
  /\ records = 0
  /\ attempt = 0
  /\ applied = {}
  /\ before = tecton
  /\ clock = 1
  /\ fetches = 0
  /\ config = NullConfig
  /\ answer = NoAnswer
  /\ peer = NoPeer
  /\ WorkspaceIdle

\* ------------------------------------------------------------- handlers
SucceededCalls == {issued[i].call : i \in {j \in 1..Len(issued) : issued[j].ok}}

\* bookkeeping common to the start of every invocation of handler `name`
Invoke(name) ==
  /\ op' = name
  /\ attempt' = IF op = name THEN attempt + 1 ELSE 1
  /\ applied' = IF op = name THEN applied \cup SucceededCalls ELSE {}
  /\ before' = tecton
  /\ clock' = clock + 1
  /\ UNCHANGED wsVars

\* the handler returns without having called UpdateAccessPolicy
ReturnEarly(r, errs, newTfstate, newPlan, newBase) ==
  /\ pc' = "idle"
  /\ state' = r.state
  /\ exists' = r.exists
  /\ diags' = errs
  /\ tfstate' = newTfstate
  /\ plan' = newPlan
  /\ base' = newBase
  /\ queue' = <<>>
  /\ issued' = <<>>
  /\ UNCHANGED tecton

\* Create after UpdateAccessPolicy returned err: "Generated computed values"
\* and resp.State.Set on success, the diagnostic on error
CreateEnd(pl, st, err) ==
  IF err
    THEN [diags |-> {"Access Policy Creation Failure"}, plan |-> pl, tfstate |-> NoState]
    ELSE LET id == IF pl.UserID # <<>> THEN UserPrefix \o st.UserID
                   ELSE IF pl.ServiceAccountID # <<>> THEN ServicePrefix \o st.ServiceAccountID
                   ELSE pl.ID
             done == [pl EXCEPT !.ID = id, !.LastUpdated = clock]
         IN  [diags |-> {}, plan |-> done, tfstate |-> done]

\* Update after UpdateAccessPolicy returned err: the diagnostic on error, and
\* in both cases last_updated and resp.State.Set
UpdateEnd(pl, st, err) ==
  LET done == [pl EXCEPT !.LastUpdated = clock]
  IN  [diags |-> IF err THEN {"Unable to update acess policy"} ELSE {},
       plan |-> done, tfstate |-> done]

\* Delete after UpdateAccessPolicy returned err; the framework removes the
\* resource from the Terraform state when Delete reports no error
DeleteEnd(pl, st, err) ==
  [diags |-> IF err THEN {"Unable to delete acess policy"} ELSE {},
   plan |-> pl,
   tfstate |-> IF err THEN tfstate ELSE NoState]

HandlerEnd(name, pl, st, err) ==
  IF name = "Create" THEN CreateEnd(pl, st, err)
  ELSE IF name = "Update" THEN UpdateEnd(pl, st, err)
  ELSE DeleteEnd(pl, st, err)

\* the handler `name` calls UpdateAccessPolicy(pl, bs), which is about to
\* issue `calls`
StartPass(name, r, pl, bs, calls) ==
  /\ state' = r.state
  /\ exists' = r.exists
  /\ base' = bs
  /\ issued' = <<>>
  /\ UNCHANGED tecton
  /\ IF calls = <<>>
       THEN LET e == HandlerEnd(name, pl, r.state, FALSE)
            IN  /\ pc' = "idle"
                /\ queue' = <<>>
                /\ diags' = e.diags
                /\ plan' = e.plan
                /\ tfstate' = e.tfstate
       ELSE /\ pc' = "running"
            /\ queue' = calls
            /\ diags' = {}
            /\ plan' = pl
            /\ UNCHANGED tfstate

\* Create without the alreadyExists check
Create_NoGuard(pl) ==
  /\ pc = "idle"
  /\ tfstate = NoState
  /\ Invoke("Create")
  /\ \E output \in RunGetRoles(pl) :
       LET st0 == [NullModel EXCEPT !.UserID = pl.UserID,
                                    !.ServiceAccountID = pl.ServiceAccountID]
           r == GetFromTecton(st0, output)
           emptyState == [NullModel EXCEPT !.UserID = pl.UserID,
                                           !.ServiceAccountID = pl.ServiceAccountID]
       IN  /\ records' = RecordCount(output.policies)
           /\ fetches' = Fetches(output)
           /\ IF r.err
                THEN ReturnEarly(r, {"Role Read Failure"}, NoState, pl, NullModel)
              ELSE \E planOrder \in PlanOrders(pl), stateOrder \in StateOrders(pl, emptyState) :
                     StartPass("Create", r, pl, emptyState,
                               UpdateAccessPolicy(pl, emptyState, planOrder, stateOrder))

\* Create creates the resource and sets the initial Terraform state.
Create(pl) ==
  /\ pc = "idle"
  /\ tfstate = NoState
  /\ Invoke("Create")
  /\ \E output \in RunGetRoles(pl) :
       LET st0 == [NullModel EXCEPT !.UserID = pl.UserID,
                                    !.ServiceAccountID = pl.ServiceAccountID]
           r == GetFromTecton(st0, output)
           emptyState == [NullModel EXCEPT !.UserID = pl.UserID,
                                           !.ServiceAccountID = pl.ServiceAccountID]
       IN  /\ records' = RecordCount(output.policies)
           /\ fetches' = Fetches(output)
           /\ IF r.err
                THEN ReturnEarly(r, {"Role Read Failure"}, NoState, pl, NullModel)
              ELSE IF r.exists
                THEN ReturnEarly(r, {"Access Policy Already Exists"}, NoState, pl, NullModel)
              ELSE \E planOrder \in PlanOrders(pl), stateOrder \in StateOrders(pl, emptyState) :
                     StartPass("Create", r, pl, emptyState,
                               UpdateAccessPolicy(pl, emptyState, planOrder, stateOrder))

\* ImportStatePassthroughID: the Terraform state holds the id only
ImportState(id) ==
  /\ pc = "idle"
  /\ Invoke("ImportState")
  /\ tfstate' = [NullModel EXCEPT !.ID = id]
  /\ fetches' = 0
  /\ UNCHANGED <<tecton, pc, plan, state, base, queue, issued, diags, exists, records>>

\* Read without the check of the id prefix: an id with neither prefix leaves
\* both principal fields empty and goes on to GetFromTecton
Read_NoPrefixCheck ==
  /\ pc = "idle"
  /\ tfstate # NoState
  /\ Invoke("Read")
  /\ LET imported == tfstate.UserID = <<>> /\ tfstate.ServiceAccountID = <<>>
         st0 == IF ~imported THEN tfstate
                ELSE IF HasPrefix(tfstate.ID, UserPrefix)
                  THEN [tfstate EXCEPT !.UserID = TrimPrefix(tfstate.ID, UserPrefix)]
                ELSE IF HasPrefix(tfstate.ID, ServicePrefix)
                  THEN [tfstate EXCEPT !.ServiceAccountID = TrimPrefix(tfstate.ID, ServicePrefix)]
                ELSE tfstate
     IN  \E output \in RunGetRoles(st0) :
           LET r == GetFromTecton(st0, output)
           IN  /\ records' = RecordCount(output.policies)
               /\ fetches' = Fetches(output)
               /\ IF r.err
                    THEN ReturnEarly(r, {"Failed to read Tecton roles"}, tfstate, plan, base)
                    ELSE ReturnEarly(r, {}, r.state, plan, base)

\* Read that revokes what it has fetched: the principal ends without grants
Read_Reset ==
  /\ pc = "idle"
  /\ tfstate # NoState
  /\ Invoke("Read")
  /\ LET imported == tfstate.UserID = <<>> /\ tfstate.ServiceAccountID = <<>>
         st0 == IF ~imported THEN tfstate
                ELSE IF HasPrefix(tfstate.ID, UserPrefix)
                  THEN [tfstate EXCEPT !.UserID = TrimPrefix(tfstate.ID, UserPrefix)]
                ELSE IF HasPrefix(tfstate.ID, ServicePrefix)
                  THEN [tfstate EXCEPT !.ServiceAccountID = TrimPrefix(tfstate.ID, ServicePrefix)]
                ELSE tfstate
         badPrefix == imported /\ ~HasPrefix(tfstate.ID, UserPrefix)
                               /\ ~HasPrefix(tfstate.ID, ServicePrefix)
     IN  /\ pc' = "idle"
         /\ queue' = <<>>
         /\ issued' = <<>>
         /\ UNCHANGED <<plan, base>>
         /\ IF badPrefix
              THEN /\ records' = 0
                   /\ fetches' = 0
                   /\ state' = st0
                   /\ exists' = FALSE
                   /\ diags' = {"Invalid ID prefix"}
                   /\ UNCHANGED <<tfstate, tecton>>
              ELSE \E output \in RunGetRoles(st0) :
                     LET r == GetFromTecton(st0, output)
                     IN  /\ records' = RecordCount(output.policies)
                         /\ fetches' = Fetches(output)
                         /\ state' = r.state
                         /\ exists' = r.exists
                         /\ diags' = IF r.err THEN {"Failed to read Tecton roles"} ELSE {}
                         /\ tfstate' = IF r.err THEN tfstate ELSE r.state
                         /\ tecton' = [tecton EXCEPT
                                         ![PrincipalKey(st0.UserID, st0.ServiceAccountID)] =
                                            NoGrants]

\* Read refreshes the Terraform state with the latest data.
Read ==
  /\ pc = "idle"
  /\ tfstate # NoState
  /\ Invoke("Read")
  /\ LET imported == tfstate.UserID = <<>> /\ tfstate.ServiceAccountID = <<>>
         st0 == IF ~imported THEN tfstate
                ELSE IF HasPrefix(tfstate.ID, UserPrefix)
                  THEN [tfstate EXCEPT !.UserID = TrimPrefix(tfstate.ID, UserPrefix)]
                ELSE IF HasPrefix(tfstate.ID, ServicePrefix)
                  THEN [tfstate EXCEPT !.ServiceAccountID = TrimPrefix(tfstate.ID, ServicePrefix)]
                ELSE tfstate
         badPrefix == imported /\ ~HasPrefix(tfstate.ID, UserPrefix)
                               /\ ~HasPrefix(tfstate.ID, ServicePrefix)
     IN  IF badPrefix
           THEN /\ records' = 0
                /\ fetches' = 0
                /\ ReturnEarly([state |-> st0, exists |-> FALSE], {"Invalid ID prefix"},
                               tfstate, plan, base)
           ELSE \E output \in RunGetRoles(st0) :
                  LET r == GetFromTecton(st0, output)
                  IN  /\ records' = RecordCount(output.policies)
                      /\ fetches' = Fetches(output)
                      /\ IF r.err
                           THEN ReturnEarly(r, {"Failed to read Tecton roles"}, tfstate, plan, base)
                           ELSE ReturnEarly(r, {}, r.state, plan, base)

\* Update that diffs the plan against the recorded state instead of the
\* state GetFromTecton refreshed
Update_RecordedState(pl) ==
  /\ pc = "idle"
  /\ tfstate # NoState
  /\ Invoke("Update")
  /\ \E output \in RunGetRoles(tfstate) :
       LET r == GetFromTecton(tfstate, output)
       IN  /\ records' = RecordCount(output.policies)
           /\ fetches' = Fetches(output)
           /\ IF r.err
                THEN ReturnEarly(r, {"Role Read Failure"}, tfstate, pl, NullModel)
                ELSE \E planOrder \in PlanOrders(pl), stateOrder \in StateOrders(pl, tfstate) :
                       StartPass("Update", r, pl, tfstate,
                                 UpdateAccessPolicy(pl, tfstate, planOrder, stateOrder))

\* Update when the get-roles command prints one of `outputs`
UpdateFrom(pl, outputs) ==
  /\ pc = "idle"
  /\ tfstate # NoState
  /\ Invoke("Update")
  /\ \E output \in outputs :
       LET r == GetFromTecton(tfstate, output)
       IN  /\ records' = RecordCount(output.policies)
           /\ fetches' = Fetches(output)
           /\ IF r.err
                THEN ReturnEarly(r, {"Role Read Failure"}, tfstate, pl, NullModel)
                ELSE \E planOrder \in PlanOrders(pl), stateOrder \in StateOrders(pl, r.state) :
                       StartPass("Update", r, pl, r.state,
                                 UpdateAccessPolicy(pl, r.state, planOrder, stateOrder))

\* Update updates the resource and sets the updated Terraform state on success.
Update(pl) == UpdateFrom(pl, RunGetRoles(tfstate))

\* Delete whose plan keeps the all_workspaces roles of the state: only admin
\* and the workspace roles are removed
Delete_KeepAllWorkspaces ==
  /\ pc = "idle"
  /\ tfstate # NoState
  /\ Invoke("Delete")
  /\ \E output \in RunGetRoles(tfstate) :
       LET r == GetFromTecton(tfstate, output)
           emptyPlan == [NullModel EXCEPT !.UserID = r.state.UserID,
                                          !.ServiceAccountID = r.state.ServiceAccountID,
                                          !.AllWorkspaces = r.state.AllWorkspaces]
       IN  /\ records' = RecordCount(output.policies)
           /\ fetches' = Fetches(output)
           /\ IF r.err
                THEN ReturnEarly(r, {"Role Read Failure"}, tfstate, emptyPlan, NullModel)
                ELSE \E planOrder \in PlanOrders(emptyPlan),
                        stateOrder \in StateOrders(emptyPlan, r.state) :
                       StartPass("Delete", r, emptyPlan, r.state,
                                 UpdateAccessPolicy(emptyPlan, r.state, planOrder, stateOrder))

\* Delete deletes the resource.
Delete ==
  /\ pc = "idle"
  /\ tfstate # NoState
  /\ Invoke("Delete")
  /\ \E output \in RunGetRoles(tfstate) :
       LET r == GetFromTecton(tfstate, output)
           emptyPlan == [NullModel EXCEPT !.UserID = r.state.UserID,
                                          !.ServiceAccountID = r.state.ServiceAccountID]
       IN  /\ records' = RecordCount(output.policies)
           /\ fetches' = Fetches(output)
           /\ IF r.err
                THEN ReturnEarly(r, {"Role Read Failure"}, tfstate, emptyPlan, NullModel)
                ELSE \E planOrder \in PlanOrders(emptyPlan),
                        stateOrder \in StateOrders(emptyPlan, r.state) :
                       StartPass("Delete", r, emptyPlan, r.state,
                                 UpdateAccessPolicy(emptyPlan, r.state, planOrder, stateOrder))

\* ------------------------------------------------------------ ModifyRole
\* the next ModifyRole call of the pass runs its command and the command
\* succeeds; after the last call UpdateAccessPolicy returns nil and the
\* handler finishes
ModifyRoleOk ==
  /\ pc = "running"
  /\ queue # <<>>
  /\ LET c == Head(queue)
         p == PrincipalKey(c.userID, c.serviceAccountID)
     IN  /\ ModifyRoleHasID(c)
         /\ tecton' = [tecton EXCEPT ![p] = ApplyRole(@, c.role, c.workspace, c.grant)]
         /\ issued' = Append(issued, [call |-> c, ok |-> TRUE])
         /\ IF Tail(queue) = <<>>
              THEN LET e == HandlerEnd(op, plan, state, FALSE)
                   IN  /\ pc' = "idle"
                       /\ queue' = <<>>
                       /\ diags' = e.diags
                       /\ plan' = e.plan
                       /\ tfstate' = e.tfstate
              ELSE /\ queue' = Tail(queue)
                   /\ UNCHANGED <<pc, diags, plan, tfstate>>
  /\ UNCHANGED <<op, state, base, exists, records, attempt, applied, before, clock, fetches, config, answer, peer, wsVars>>

\* ModifyRoleFail where the error of the call is dropped and the pass goes on
ModifyRoleFail_Continue ==
  /\ pc = "running"
  /\ queue # <<>>
  /\ issued' = Append(issued, [call |-> Head(queue), ok |-> FALSE])
  /\ IF Tail(queue) = <<>>
       THEN LET e == HandlerEnd(op, plan, state, FALSE)
            IN  /\ pc' = "idle"
                /\ queue' = <<>>
                /\ diags' = e.diags
                /\ plan' = e.plan
                /\ tfstate' = e.tfstate
       ELSE /\ queue' = Tail(queue)
            /\ UNCHANGED <<pc, diags, plan, tfstate>>
  /\ UNCHANGED <<tecton, op, state, base, exists, records, attempt, applied, before, clock, fetches, config, answer, peer, wsVars>>

\* the next ModifyRole call returns an error (no id, or the command failed):
\* UpdateWorkspace and UpdateAccessPolicy return it and the handler finishes
ModifyRoleFail ==
  /\ pc = "running"
  /\ queue # <<>>
  /\ LET c == Head(queue)
         e == HandlerEnd(op, plan, state, TRUE)
     IN  /\ issued' = Append(issued, [call |-> c, ok |-> FALSE])
         /\ pc' = "idle"
         /\ queue' = <<>>
         /\ diags' = e.diags
         /\ plan' = e.plan
         /\ tfstate' = e.tfstate
  /\ UNCHANGED <<tecton, op, state, base, exists, records, attempt, applied, before, clock, fetches, config, answer, peer, wsVars>>

\* ------------------------------------------------------------ Terraform
\* Terraform invokes a handler for the first time after the handlers `prev`
\* succeeded, or again after it reported an error
Fresh(prev) == pc = "idle" /\ op \in prev /\ diags = {}
Retry(name) == pc = "idle" /\ op = name /\ diags # {} /\ attempt < MaxAttempts

\* the plans of the declarations in `decls` for the resource recorded in
\* tfstate: the id is the one of the state (UseStateForUnknown), last_updated
\* is unknown
PlanFor(decl) == [decl EXCEPT !.ID = tfstate.ID, !.LastUpdated = 0]

\* declarations for the principal of the recorded resource
PlansOf(st) == {pl \in Plans : ModelPrincipal(pl) = ModelPrincipal(st)}

CreateNew == Fresh({"none"}) /\ UNCHANGED <<config, answer, peer>> /\ \E pl \in Plans : Create(pl)
CreateAgain == Retry("Create") /\ UNCHANGED <<config, answer, peer>> /\ Create(plan)
ImportNew == Fresh({"none"}) /\ tfstate = NoState /\ UNCHANGED <<config, answer, peer>> /\ \E id \in ImportIds : ImportState(id)
ReadImported == Fresh({"ImportState"}) /\ UNCHANGED <<config, answer, peer>> /\ Read
UpdateNew ==
  /\ Fresh({"Read"}) /\ tfstate # NoState /\ tfstate.LastUpdated = 0 /\ UNCHANGED <<config, answer, peer>>
  /\ \E pl \in PlansOf(tfstate) : Update(PlanFor(pl))
UpdateAgain == Retry("Update") /\ UNCHANGED <<config, answer, peer>> /\ Update(PlanFor(plan))
DeleteNew ==
  Fresh({"Read"}) /\ tfstate # NoState /\ tfstate.LastUpdated = 0 /\ UNCHANGED <<config, answer, peer>> /\ Delete
DeleteAgain == Retry("Delete") /\ UNCHANGED <<config, answer, peer>> /\ Delete

Next ==
  \/ CreateNew
  \/ CreateAgain
  \/ ImportNew
  \/ ReadImported
  \/ UpdateNew
  \/ UpdateAgain
  \/ DeleteNew
  \/ DeleteAgain
  \/ ModifyRoleOk
  \/ ModifyRoleFail

Spec == Init /\ [][Next]_vars

\* ========================================== provider, workspaceResource
\* One run of Terraform: the provider is configured, which prefetches the
\* workspace list, and then up to MaxWsOps handlers of one tecton_workspace
\* resource are invoked.  Workspace names are only compared and copied and
\* stay TLA+ strings.

\* One line of the output of `tecton workspace list`
LiveHeader == [kind |-> "Live Workspaces:", active |-> FALSE, name |-> ""]
DevHeader == [kind |-> "Development Workspaces:", active |-> FALSE, name |-> ""]
BlankLine == [kind |-> "", active |-> FALSE, name |-> ""]
\* "  name", or "* name" for the active workspace
WorkspaceLine(n, a) == [kind |-> "workspace", active |-> a, name |-> n]

\* the text the command prints for the workspaces of the backend, the names
\* of a section in the order liveOrder / devOrder, `active` marked with *
ListOutput(liveOrder, devOrder, active) ==
  <<LiveHeader>>
    \o [i \in 1..Len(liveOrder) |-> WorkspaceLine(liveOrder[i], liveOrder[i] = active)]
    \o <<BlankLine, DevHeader>>
    \o [i \in 1..Len(devOrder) |-> WorkspaceLine(devOrder[i], devOrder[i] = active)]
    \o <<BlankLine>>

\* what the command may print: a failure, text that does not match the
\* expected regular expression, or the list
ListOutputs(ws) ==
  {[status |-> "failed", lines |-> <<>>], [status |-> "unexpected", lines |-> <<>>]}
    \cup {[status |-> "ok", lines |-> ListOutput(liveOrder, devOrder, active)] :
            liveOrder \in Perms(ws.Lives), devOrder \in Perms(ws.Devs),
            active \in ws.Lives \cup ws.Devs \cup {""}}

RECURSIVE ParseLines(_, _, _, _)
\* the loop of ListWorkspaces over the lines of the output
ParseLines(lines, k, liveSection, acc) ==
  IF k > Len(lines) THEN acc
  ELSE LET line == lines[k]
       IN  IF line.kind = "Live Workspaces:" THEN ParseLines(lines, k + 1, TRUE, acc)
           ELSE IF line.kind = "Development Workspaces:"
             THEN ParseLines(lines, k + 1, FALSE, acc)
           ELSE LET workspace == line.name   \* "*" and the spaces trimmed
                IN  IF workspace = "" THEN ParseLines(lines, k + 1, liveSection, acc)
                    ELSE IF liveSection
                      THEN ParseLines(lines, k + 1, liveSection,
                                      [acc EXCEPT !.Lives = Append(@, workspace)])
                      ELSE ParseLines(lines, k + 1, liveSection,
                                      [acc EXCEPT !.Devs = Append(@, workspace)])

\* ListWorkspaces: (Workspaces, error)
ListWorkspaces(output) ==
  IF output.status # "ok"
    THEN [err |-> TRUE, workspaces |-> [Lives |-> <<>>, Devs |-> <<>>]]
    ELSE [err |-> FALSE,
          workspaces |-> ParseLines(output.lines, 1, TRUE, [Lives |-> <<>>, Devs |-> <<>>])]

\* GetWorkspace whose loops are swapped: a name in both lists is live
GetWorkspace_LiveWins(data, workspaceName) ==
  LET inLives == \E i \in DOMAIN data.Lives : data.Lives[i] = workspaceName
      inDevs == \E i \in DOMAIN data.Devs : data.Devs[i] = workspaceName
  IN  IF ~inLives /\ ~inDevs THEN [isLive |-> FALSE, err |-> TRUE]
      ELSE [isLive |-> inLives, err |-> FALSE]

\* GetWorkspace: (isLive, error)
GetWorkspace(data, workspaceName) ==
  LET inLives == \E i \in DOMAIN data.Lives : data.Lives[i] = workspaceName
      inDevs == \E i \in DOMAIN data.Devs : data.Devs[i] = workspaceName
  IN  IF ~inLives /\ ~inDevs THEN [isLive |-> FALSE, err |-> TRUE]
      ELSE [isLive |-> inLives /\ ~inDevs, err |-> FALSE]

\* bookkeeping common to the start of every handler of the run
WorkspaceInvoke(name) ==
  /\ wsOp' = name
  /\ wsBefore' = [workspaces |-> workspaces, WorkspaceData |-> WorkspaceData,
                  state |-> wsState]
  /\ clock' = clock + 1
  /\ UNCHANGED <<tecton, tfstate, op, pc, plan, state, base, queue, issued, diags, exists,
                 records, attempt, applied, before, fetches, config, answer, peer>>

\* TectonProvider.Configure and the Configure of the resource
Configure ==
  /\ WorkspaceInvoke("Configure")
  /\ \E output \in ListOutputs(workspaces) :
       LET r == ListWorkspaces(output)
       IN  /\ wsCmds' = <<[cmd |-> "list", name |-> "", live |-> FALSE]>>
           /\ wsDiags' = IF r.err THEN {"Failed to list Tecton workspaces"} ELSE {}
           /\ WorkspaceData' = IF r.err THEN WorkspaceData ELSE r.workspaces
           /\ UNCHANGED <<workspaces, wsState, wsPlan>>

\* workspaceResource.Create that also enters the new workspace in the
\* prefetched lists
WorkspaceCreate_Refresh(pl) ==
  /\ WorkspaceInvoke("Create")
  /\ LET name == pl.Name
         live == ValueBool(pl.Live)
         taken == name \in workspaces.Lives \cup workspaces.Devs
     IN  /\ wsCmds' = <<[cmd |-> "create", name |-> name, live |-> live]>>
         /\ \E ok \in (IF taken THEN {FALSE} ELSE BOOLEAN) :
              IF ok
                THEN /\ workspaces' = IF live THEN [workspaces EXCEPT !.Lives = @ \cup {name}]
                                              ELSE [workspaces EXCEPT !.Devs = @ \cup {name}]
                     /\ WorkspaceData' = IF live
                                           THEN [WorkspaceData EXCEPT !.Lives = Append(@, name)]
                                           ELSE [WorkspaceData EXCEPT !.Devs = Append(@, name)]
                     /\ wsPlan' = [pl EXCEPT !.ID = pl.Name, !.LastUpdated = clock']
                     /\ wsState' = wsPlan'
                     /\ wsDiags' = {}
                ELSE /\ wsDiags' = {"Failed to create Tecton workspace"}
                     /\ wsPlan' = pl
                     /\ UNCHANGED <<workspaces, wsState, WorkspaceData>>

\* workspaceResource.Create; the command fails when the name is taken, and
\* may fail otherwise
WorkspaceCreate(pl) ==
  /\ WorkspaceInvoke("Create")
  /\ LET name == pl.Name
         live == ValueBool(pl.Live)
         taken == name \in workspaces.Lives \cup workspaces.Devs
     IN  /\ wsCmds' = <<[cmd |-> "create", name |-> name, live |-> live]>>
         /\ \E ok \in (IF taken THEN {FALSE} ELSE BOOLEAN) :
              IF ok
                THEN /\ workspaces' = IF live THEN [workspaces EXCEPT !.Lives = @ \cup {name}]
                                              ELSE [workspaces EXCEPT !.Devs = @ \cup {name}]
                     /\ wsPlan' = [pl EXCEPT !.ID = pl.Name, !.LastUpdated = clock']
                     /\ wsState' = wsPlan'
                     /\ wsDiags' = {}
                ELSE /\ wsDiags' = {"Failed to create Tecton workspace"}
                     /\ wsPlan' = pl
                     /\ UNCHANGED <<workspaces, wsState>>
  /\ UNCHANGED WorkspaceData

\* workspaceResource.ImportState
WorkspaceImportState(id) ==
  /\ WorkspaceInvoke("ImportState")
  /\ wsState' = [NullWorkspace EXCEPT !.ID = id]
  /\ wsDiags' = {}
  /\ wsCmds' = <<>>
  /\ UNCHANGED <<workspaces, WorkspaceData, wsPlan>>

\* workspaceResource.Read that looks the workspace up by id and leaves the
\* name of the state as it is
WorkspaceRead_NameNotSet ==
  /\ WorkspaceInvoke("Read")
  /\ LET st0 == IF wsState.Name = "" THEN [wsState EXCEPT !.Name = wsState.ID] ELSE wsState
         r == GetWorkspace(WorkspaceData, st0.Name)
     IN  IF r.err
           THEN /\ wsDiags' = {"Error Reading Workspace"}
                /\ UNCHANGED wsState
           ELSE /\ wsDiags' = {}
                /\ wsState' = [wsState EXCEPT !.Live = BoolValue(r.isLive)]
  /\ wsCmds' = <<>>
  /\ UNCHANGED <<workspaces, WorkspaceData, wsPlan>>

\* workspaceResource.Read
WorkspaceRead ==
  /\ WorkspaceInvoke("Read")
  /\ LET st0 == IF wsState.Name = "" THEN [wsState EXCEPT !.Name = wsState.ID] ELSE wsState
         r == GetWorkspace(WorkspaceData, st0.Name)
     IN  IF r.err
           THEN /\ wsDiags' = {"Error Reading Workspace"}
                /\ UNCHANGED wsState
           ELSE /\ wsDiags' = {}
                /\ wsState' = [st0 EXCEPT !.Live = BoolValue(r.isLive)]
  /\ wsCmds' = <<>>
  /\ UNCHANGED <<workspaces, WorkspaceData, wsPlan>>

\* workspaceResource.Update that compares the names only
WorkspaceUpdate_NameOnly(pl) ==
  /\ WorkspaceInvoke("Update")
  /\ wsPlan' = pl
  /\ wsDiags' = IF wsState.Name # pl.Name THEN {"Error Updating Workspace"} ELSE {}
  /\ wsCmds' = <<>>
  /\ UNCHANGED <<workspaces, WorkspaceData, wsState>>

\* workspaceResource.Update: the response keeps the prior state
WorkspaceUpdate(pl) ==
  /\ WorkspaceInvoke("Update")
  /\ wsPlan' = pl
  /\ wsDiags' = (IF wsState.Name # pl.Name THEN {"Error Updating Workspace"} ELSE {})
                  \cup (IF wsState.Live # pl.Live THEN {"Error Updating Workspace"} ELSE {})
  /\ wsCmds' = <<>>
  /\ UNCHANGED <<workspaces, WorkspaceData, wsState>>

\* workspaceResource.Delete; the command fails when there is no such
\* workspace, and may fail otherwise
WorkspaceDelete ==
  /\ WorkspaceInvoke("Delete")
  /\ LET name == wsState.Name
         present == name \in workspaces.Lives \cup workspaces.Devs
     IN  /\ wsCmds' = <<[cmd |-> "delete", name |-> name, live |-> FALSE]>>
         /\ \E ok \in (IF present THEN BOOLEAN ELSE {FALSE}) :
              IF ok
                THEN /\ workspaces' = [Lives |-> workspaces.Lives \ {name},
                                       Devs |-> workspaces.Devs \ {name}]
                     /\ wsState' = NoState
                     /\ wsDiags' = {}
                ELSE /\ wsDiags' = {"Failed to delete Tecton workspace"}
                     /\ UNCHANGED <<workspaces, wsState>>
  /\ UNCHANGED <<WorkspaceData, wsPlan>>

\* the declarations of a workspace: name and live are required
WorkspacePlans ==
  {[NullWorkspace EXCEPT !.Name = n, !.Live = BoolValue(l)] : n \in WsNames, l \in BOOLEAN}

\* the plan of a declaration for the recorded resource: the id is the one of
\* the state (UseStateForUnknown)
WorkspacePlanFor(decl) == [decl EXCEPT !.ID = wsState.ID]

InitWorkspace ==
  /\ tecton = [p \in Principals |-> NoGrants]
  /\ tfstate = NoState
  /\ op = "none"
  /\ pc = "idle"
  /\ plan = NullModel
  /\ state = NullModel
  /\ base = NullModel
  /\ queue = <<>>
  /\ issued = <<>>
  /\ diags = {}
  /\ exists = FALSE
  /\ records = 0
  /\ attempt = 0
  /\ applied = {}
  /\ before = tecton
  /\ clock = 1
  /\ fetches = 0
  /\ config = NullConfig
  /\ answer = NoAnswer
  /\ peer = NoPeer
  /\ workspaces \in {w \in [Lives : SUBSET WsNames, Devs : SUBSET WsNames] :
                        w.Lives \cap w.Devs = {}}
  /\ WorkspaceData = [Lives |-> <<>>, Devs |-> <<>>]
  /\ wsState = NoState
  /\ wsOp = "none"
  /\ wsPlan = NullWorkspace
  /\ wsDiags = {}
  /\ wsCmds = <<>>
  /\ wsBefore = [workspaces |-> workspaces, WorkspaceData |-> WorkspaceData,
                 state |-> wsState]

\* the provider is configured and the run has handler invocations left;
\* a state that ImportState has just made goes to Read first
ProviderReady ==
  /\ wsOp # "none"
  /\ ~(wsOp = "Configure" /\ wsDiags # {})
  /\ clock <= MaxWsOps + 1
Recorded == wsState # NoState /\ wsOp # "ImportState"

ConfigureRun == wsOp = "none" /\ Configure
WorkspaceCreateNew == ProviderReady /\ wsState = NoState /\ \E pl \in WorkspacePlans : WorkspaceCreate(pl)
WorkspaceImportNew == ProviderReady /\ wsState = NoState /\ \E id \in WsNames : WorkspaceImportState(id)
WorkspaceRefresh == ProviderReady /\ wsState # NoState /\ WorkspaceRead
WorkspaceUpdateNew ==
  /\ ProviderReady /\ Recorded /\ wsState.Name # ""
  /\ \E pl \in WorkspacePlans : WorkspaceUpdate(WorkspacePlanFor(pl))
WorkspaceDeleteNew == ProviderReady /\ Recorded /\ wsState.Name # "" /\ WorkspaceDelete

NextWorkspace ==
  \/ ConfigureRun
  \/ WorkspaceCreateNew
  \/ WorkspaceImportNew
  \/ WorkspaceRefresh
  \/ WorkspaceUpdateNew
  \/ WorkspaceDeleteNew

SpecWorkspace == InitWorkspace /\ [][NextWorkspace]_vars

\* ------------------------------------------- two resources applied at once
\* Terraform applies resources that do not depend on each other in parallel:
\* while the imported resource is updated, the Update of a resource for the
\* other principal runs in a goroutine of its own.  The handlers share the
\* backend only; every get-roles, assign-role and unassign-role command is
\* one step, and the steps of the two passes interleave in any order.  Both
\* passes are Updates, so the one whose fetch comes first is taken to be the
\* pass of the imported resource.
\* The declarations for principal q set admin, have up to MaxPeerEntries
\* role entries and name no workspace without a role.
PeerPlans(q) ==
  {pl \in Plans : /\ ModelPrincipal(pl) = q
                  /\ pl.Admin # BoolNull
                  /\ Len(pl.AllWorkspaces) + SumLen(pl.Workspaces, DOMAIN pl.Workspaces)
                       <= MaxPeerEntries
                  /\ \A w \in DOMAIN pl.Workspaces : pl.Workspaces[w] # <<>>}

\* Update of the other resource up to its first ModifyRole call
PeerUpdate ==
  /\ peer.pc = "none"
  /\ op = "Update"
  /\ tfstate # NoState
  /\ ModelPrincipal(tfstate) \in Principals
  /\ \E q \in Principals \ {ModelPrincipal(tfstate)} :
       LET recorded == IF q[1] = "user"
                         THEN [NullModel EXCEPT !.ID = UserPrefix \o q[2], !.UserID = q[2]]
                         ELSE [NullModel EXCEPT !.ID = ServicePrefix \o q[2],
                                                !.ServiceAccountID = q[2]]
       IN
       \E pl \in PeerPlans(q), output \in RunGetRoles(recorded) :
         LET r == GetFromTecton(recorded, output)
         IN  IF r.err
               THEN peer' = [pc |-> "done", plan |-> pl, state |-> r.state, queue |-> <<>>,
                             issued |-> <<>>, diags |-> {"Role Read Failure"},
                             before |-> tecton]
               ELSE \E planOrder \in PlanOrders(pl), stateOrder \in StateOrders(pl, r.state) :
                      LET calls == UpdateAccessPolicy(pl, r.state, planOrder, stateOrder)
                      IN  peer' = [pc |-> IF calls = <<>> THEN "done" ELSE "running",
                                   plan |-> pl, state |-> r.state, queue |-> calls,
                                   issued |-> <<>>, diags |-> {}, before |-> tecton]
  /\ UNCHANGED <<tecton, tfstate, op, pc, plan, state, base, queue, issued, diags, exists,
                 records, attempt, applied, before, clock, fetches, config, answer, wsVars>>

\* assign-role / unassign-role without the principal argument, which the
\* backend applies to every principal
PeerModifyRoleOk_AllPrincipals ==
  /\ peer.pc = "running"
  /\ LET c == Head(peer.queue)
     IN  /\ ModifyRoleHasID(c)
         /\ tecton' = [p \in Principals |-> ApplyRole(tecton[p], c.role, c.workspace, c.grant)]
         /\ peer' = [peer EXCEPT !.issued = Append(@, [call |-> c, ok |-> TRUE]),
                                 !.queue = Tail(@),
                                 !.pc = IF Tail(peer.queue) = <<>> THEN "done" ELSE "running"]
  /\ UNCHANGED <<tfstate, op, pc, plan, state, base, queue, issued, diags, exists,
                 records, attempt, applied, before, clock, fetches, config, answer, wsVars>>

\* the next ModifyRole call of the other pass succeeds
PeerModifyRoleOk ==
  /\ peer.pc = "running"
  /\ LET c == Head(peer.queue)
         p == PrincipalKey(c.userID, c.serviceAccountID)
     IN  /\ ModifyRoleHasID(c)
         /\ tecton' = [tecton EXCEPT ![p] = ApplyRole(@, c.role, c.workspace, c.grant)]
         /\ peer' = [peer EXCEPT !.issued = Append(@, [call |-> c, ok |-> TRUE]),
                                 !.queue = Tail(@),
                                 !.pc = IF Tail(peer.queue) = <<>> THEN "done" ELSE "running"]
  /\ UNCHANGED <<tfstate, op, pc, plan, state, base, queue, issued, diags, exists,
                 records, attempt, applied, before, clock, fetches, config, answer, wsVars>>

\* the next ModifyRole call of the other pass returns an error, and its
\* Update ends
PeerModifyRoleFail ==
  /\ peer.pc = "running"
  /\ peer' = [peer EXCEPT !.issued = Append(@, [call |-> Head(peer.queue), ok |-> FALSE]),
                          !.queue = <<>>,
                          !.pc = "done",
                          !.diags = {"Unable to update acess policy"}]
  /\ UNCHANGED <<tecton, tfstate, op, pc, plan, state, base, queue, issued, diags, exists,
                 records, attempt, applied, before, clock, fetches, config, answer, wsVars>>

NextConcurrent ==
  \/ ImportNew
  \/ ReadImported
  \/ /\ Fresh({"Read"}) /\ tfstate # NoState /\ UNCHANGED <<config, answer, peer>>
     /\ \E pl \in PeerPlans(ModelPrincipal(tfstate)) : Update(PlanFor(pl))
  \/ ModifyRoleOk
  \/ ModifyRoleFail
  \/ PeerUpdate
  \/ PeerModifyRoleOk
  \/ PeerModifyRoleFail

SpecConcurrent == Init /\ [][NextConcurrent]_vars

\* ------------------------------------------------- calls that return
\* The resource lifecycle of Spec in which a started command returns: a pass
\* is one goroutine that waits for each `tecton access-control` command in
\* cmd.CombinedOutput(), so while calls are queued the next one is issued
\* and comes back, with or without an error.
SpecLive == Init /\ [][Next]_vars /\ WF_vars(ModifyRoleOk \/ ModifyRoleFail)

\* ------------------------------------------------- one lookup, any snapshot
\* Read on its own: the snapshot holds any two lists of up to MaxSnapshotLen
\* names, a name possibly in both or twice in one, and the recorded state
\* is one that Create or ImportState made.
InitLookup ==
  /\ tecton = [p \in Principals |-> NoGrants]
  /\ tfstate = NoState
  /\ op = "none"
  /\ pc = "idle"
  /\ plan = NullModel
  /\ state = NullModel
  /\ base = NullModel
  /\ queue = <<>>
  /\ issued = <<>>
  /\ diags = {}
  /\ exists = FALSE
  /\ records = 0
  /\ attempt = 0
  /\ applied = {}
  /\ before = tecton
  /\ clock = 1
  /\ fetches = 0
  /\ config = NullConfig
  /\ answer = NoAnswer
  /\ peer = NoPeer
  /\ workspaces = [Lives |-> {}, Devs |-> {}]
  /\ LET names == WsNames \cup {"test"}
         lists == UNION {[1..n -> names] : n \in 0..MaxSnapshotLen}
     IN  /\ WorkspaceData \in [Lives : lists, Devs : lists]
         /\ wsState \in
              {[NullWorkspace EXCEPT !.ID = n, !.Name = n, !.Live = BoolValue(l),
                                     !.LastUpdated = 1] : n \in names, l \in BOOLEAN}
                \cup {[NullWorkspace EXCEPT !.ID = n] : n \in names}
  /\ wsOp = "none"
  /\ wsPlan = NullWorkspace
  /\ wsDiags = {}
  /\ wsCmds = <<>>
  /\ wsBefore = [workspaces |-> workspaces, WorkspaceData |-> WorkspaceData,
                 state |-> wsState]

NextLookup == wsOp = "none" /\ WorkspaceRead

SpecLookup == InitLookup /\ [][NextLookup]_vars

\* ------------------------------------------------- apply, then refresh
\* The resource lifecycle of Spec without retries and Delete; after a Create
\* or an Update that ended without error Terraform refreshes the resource.
ReadApplied ==
  Fresh({"Create", "Update"}) /\ tfstate # NoState /\ UNCHANGED <<config, answer, peer>> /\ Read

NextRefresh ==
  \/ CreateNew
  \/ ImportNew
  \/ ReadImported
  \/ UpdateNew
  \/ ModifyRoleOk
  \/ ModifyRoleFail
  \/ ReadApplied

SpecRefresh == Init /\ [][NextRefresh]_vars

\* ------------------------------------------------------- refresh after refresh
\* A resource that was created or imported is read up to MaxReads times in
\* a row, also after a Read that failed.
ReadAgain ==
  /\ pc = "idle" /\ op = "Read" /\ attempt < MaxReads
  /\ UNCHANGED <<config, answer, peer>>
  /\ Read

NextReads ==
  \/ CreateNew
  \/ ImportNew
  \/ ReadImported
  \/ ModifyRoleOk
  \/ ModifyRoleFail
  \/ ReadApplied
  \/ ReadAgain

SpecReads == Init /\ [][NextReads]_vars

\* --------------------------------------------- validation, then creation
\* Terraform validates the declaration of a new resource and, when no
\* validator reports an error, plans it and invokes Create.
ValidateResourceConfig(cfg) ==
  LET errs == AttributeErrors(cfg) \cup ConfigValidators(cfg)
  IN  /\ pc = "idle"
      /\ config' = cfg
      /\ UNCHANGED <<answer, peer>>
      /\ IF errs = {}
           THEN Create(PlanGet(cfg))
           ELSE /\ op' = "ValidateResourceConfig"
                /\ diags' = errs
                /\ plan' = PlanGet(cfg)
                /\ fetches' = 0
                /\ before' = tecton
                /\ UNCHANGED <<tecton, tfstate, pc, state, base, queue, issued, exists,
                               records, attempt, applied, clock, wsVars>>

DeclareNew == Fresh({"none"}) /\ \E cfg \in Configs : ValidateResourceConfig(cfg)

NextConfig ==
  \/ DeclareNew
  \/ ModifyRoleOk
  \/ ModifyRoleFail

SpecConfig == Init /\ [][NextConfig]_vars

\* --------------------------------------------- creation, then import by id
\* A resource is created for a principal and then imported, by the id that
\* Create gave it, into a Terraform state that does not hold it, and read.
\* The principal ids are the strings up to MaxIdLen over IdChars and the
\* strings that look like the prefixes, as far as the schema accepts them.
IdChars == {"u", "s", "-"}

IdCandidates ==
  UNION {[1..n -> IdChars] : n \in 1..MaxIdLen}
    \cup {UserPrefix, ServicePrefix, <<"u", "s", "e", "r">>,
          <<"s", "e", "r", "v", "i", "c", "e">>}

IdUserIds ==
  {id \in IdCandidates : RegexMatches(id, Alphanumerics \cup {"-", "_", ".", "@"})}
IdServiceIds == {id \in IdCandidates : RegexMatches(id, Alphanumerics)}

IdPrincipals == {<<"user", u>> : u \in IdUserIds} \cup {<<"service", a>> : a \in IdServiceIds}

IdPlans ==
  {[NullModel EXCEPT !.UserID = u, !.Admin = a] : u \in IdUserIds, a \in Bools \ {BoolNull}}
    \cup {[NullModel EXCEPT !.ServiceAccountID = u, !.Admin = a] :
            u \in IdServiceIds, a \in Bools \ {BoolNull}}

InitId ==
  /\ tecton = [p \in IdPrincipals |-> NoGrants]
  /\ tfstate = NoState
  /\ op = "none"
  /\ pc = "idle"
  /\ plan = NullModel
  /\ state = NullModel
  /\ base = NullModel
  /\ queue = <<>>
  /\ issued = <<>>
  /\ diags = {}
  /\ exists = FALSE
  /\ records = 0
  /\ attempt = 0
  /\ applied = {}
  /\ before = tecton
  /\ clock = 1
  /\ fetches = 0
  /\ config = NullConfig
  /\ answer = NoAnswer
  /\ peer = NoPeer
  /\ WorkspaceIdle

CreateId == Fresh({"none"}) /\ UNCHANGED <<config, answer, peer>> /\ \E pl \in IdPlans : Create(pl)
ImportCreated ==
  Fresh({"Create"}) /\ tfstate # NoState /\ UNCHANGED <<config, answer, peer>> /\ ImportState(tfstate.ID)

NextId ==
  \/ CreateId
  \/ ModifyRoleOk
  \/ ModifyRoleFail
  \/ ImportCreated
  \/ ReadImported

SpecId == InitId /\ [][NextId]_vars

\* ------------------------------------------------- larger policies, one pass
\* One imported user, read and then updated once, with roles drawn from the
\* first MaxOrderRoles valid roles.
OrderRoleNames ==
  {validRoles[i] : i \in 1..(IF MaxOrderRoles < Len(validRoles) THEN MaxOrderRoles
                                                               ELSE Len(validRoles))}

OrderGrantSets ==
  {g \in [admin : BOOLEAN, org : SUBSET OrderRoleNames,
          ws : [WsNames -> SUBSET OrderRoleNames]] :
      GrantCount([g EXCEPT !.admin = FALSE]) <= MaxOrderGrants}

OrderRoleLists ==
  UNION {Perms(S) : S \in {T \in SUBSET OrderRoleNames : Cardinality(T) <= MaxOrderEntries}}

OrderPlans ==
  {pl \in [ID : {<<>>}, LastUpdated : {0},
           UserID : UserIds, ServiceAccountID : {<<>>},
           Admin : Bools, AllWorkspaces : OrderRoleLists,
           Workspaces : UNION {[d -> OrderRoleLists] : d \in SUBSET WsNames}] :
      Len(pl.AllWorkspaces) + SumLen(pl.Workspaces, DOMAIN pl.Workspaces) <= MaxOrderEntries}

InitOrder ==
  /\ tecton \in {t \in [Principals -> OrderGrantSets] :
                   \A p \in Principals : p[1] = "service" => t[p] = NoGrants}
  /\ tfstate = NoState
  /\ op = "none"
  /\ pc = "idle"
  /\ plan = NullModel
  /\ state = NullModel
  /\ base = NullModel
  /\ queue = <<>>
  /\ issued = <<>>
  /\ diags = {}
  /\ exists = FALSE
  /\ records = 0
  /\ attempt = 0
  /\ applied = {}
  /\ before = tecton
  /\ clock = 1
  /\ fetches = 0
  /\ config = NullConfig
  /\ answer = NoAnswer
  /\ peer = NoPeer
  /\ WorkspaceIdle

ImportOrder == Fresh({"none"}) /\ tfstate = NoState /\ UNCHANGED <<config, answer, peer>> /\ \E u \in UserIds : ImportState(UserPrefix \o u)
UpdateOrder ==
  /\ Fresh({"Read"}) /\ tfstate # NoState /\ UNCHANGED <<config, answer, peer>>
  /\ \E pl \in OrderPlans : Update(PlanFor(pl))

NextOrder ==
  \/ ImportOrder
  \/ ReadImported
  \/ UpdateOrder
  \/ ModifyRoleOk
  \/ ModifyRoleFail

SpecOrder == InitOrder /\ [][NextOrder]_vars

\* ----------------------------------------------------- the diff of one scope
\* UpdateWorkspace on its own: it is handed the role list of the plan and the
\* role list of the state of one scope, in any order, with repetitions and
\* with a string that is not a valid role.
DiffRoles == {"viewer", "owner", "custom"}
DiffLists == UNION {[1..n -> DiffRoles] : n \in 0..MaxDiffLen}

InitDiff ==
  /\ tecton = [p \in Principals |-> NoGrants]
  /\ tfstate = NoState
  /\ op = "none"
  /\ pc = "idle"
  /\ plan \in {[NullModel EXCEPT !.UserID = u, !.AllWorkspaces = l] :
                 u \in UserIds, l \in DiffLists}
  /\ state = NullModel
  /\ base \in {[NullModel EXCEPT !.UserID = u, !.AllWorkspaces = l] :
                 u \in UserIds, l \in DiffLists}
  /\ queue = <<>>
  /\ issued = <<>>
  /\ diags = {}
  /\ exists = FALSE
  /\ records = 0
  /\ attempt = 0
  /\ applied = {}
  /\ before = tecton
  /\ clock = 1
  /\ fetches = 0
  /\ config = NullConfig
  /\ answer = NoAnswer
  /\ peer = NoPeer
  /\ WorkspaceIdle

\* the calls of UpdateWorkspace(plan roles, state roles) on `workspace`
DiffScope ==
  /\ op = "none"
  /\ op' = "UpdateWorkspace"
  /\ \E workspace \in {""} \cup WsNames :
       queue' = UpdateWorkspace(plan.UserID, plan.ServiceAccountID, workspace,
                                plan.AllWorkspaces, base.AllWorkspaces)
  /\ UNCHANGED <<tecton, tfstate, pc, plan, state, base, issued, diags, exists, records,
                 attempt, applied, before, clock, fetches, config, answer, peer, wsVars>>

NextDiff == DiffScope

SpecDiff == InitDiff /\ [][NextDiff]_vars

\* ------------------------------------------------------- one fetch, any answer
\* GetFromTecton on its own: the state object it is handed is the recorded
\* state of a user, and the command prints any answer of up to
\* MaxFetchEntries entries with up to MaxFetchRecords role records, of any
\* resource type, with valid roles, admin and a string that is not a role,
\* assigned directly or not, in any order and with repetitions.
FetchRoles == {"viewer", "owner", "custom", "admin"}
FetchSources == {<<"DIRECT">>, <<"INHERITED">>}
FetchRecords == {RoleGranted(r, s) : r \in FetchRoles, s \in FetchSources}

\* resource type and workspace name of an entry
FetchKinds ==
  {<<"ORGANIZATION", "">>, <<"FEATURE_VIEW", "">>} \cup {<<"WORKSPACE", w>> : w \in WsNames}

RECURSIVE SumTo(_, _)
\* lens[1] + ... + lens[k]
SumTo(lens, k) == IF k = 0 THEN 0 ELSE lens[k] + SumTo(lens, k - 1)

\* the answer whose k-th entry is of kind kinds[k] and holds the next lens[k]
\* role records of `recs`
AnswerOf(recs, lens, kinds) ==
  [k \in 1..Len(lens) |->
     [ResourceType |-> kinds[k][1], WorkspaceName |-> kinds[k][2],
      RolesGranted |-> SubSeq(recs, SumTo(lens, k - 1) + 1, SumTo(lens, k))]]

\* the recorded states the object may come from: just imported and read
\* without grants, or holding grants of every kind
FetchStates ==
  {[NullModel EXCEPT !.ID = UserPrefix \o u, !.UserID = u, !.Admin = BoolValue(FALSE)] :
      u \in UserIds}
    \cup {[NullModel EXCEPT !.ID = UserPrefix \o u, !.UserID = u, !.Admin = BoolValue(TRUE),
                            !.AllWorkspaces = <<"editor">>,
                            !.Workspaces = [w \in {"prod"} |-> <<"operator">>]] :
            u \in UserIds}

\* The object may also be one without a principal id, as GetFromTecton could
\* be handed by a caller that skipped the checks of Create and Read.

InitFetch ==
  /\ tecton = [p \in Principals |-> NoGrants]
  /\ \/ /\ tfstate \in {NullModel,
                         [NullModel EXCEPT !.Admin = BoolValue(TRUE),
                                           !.AllWorkspaces = <<"editor">>,
                                           !.Workspaces = [w \in {"prod"} |-> <<"operator">>]]}
        /\ answer = NoAnswer
     \/ /\ tfstate \in FetchStates
        /\ answer \in {[status |-> "failed", policies |-> <<>>],
                       [status |-> "unparsable", policies |-> <<>>]}
     \/ /\ tfstate \in FetchStates
        /\ \E n \in 0..MaxFetchRecords, k \in 0..MaxFetchEntries :
             \E recs \in [1..n -> FetchRecords], kinds \in [1..k -> FetchKinds],
                lens \in {l \in [1..k -> 0..n] : SumTo(l, k) = n} :
               answer = [status |-> "ok", policies |-> AnswerOf(recs, lens, kinds)]
  /\ op = "none"
  /\ pc = "idle"
  /\ plan = NullModel
  /\ state = tfstate
  /\ base = NullModel
  /\ queue = <<>>
  /\ issued = <<>>
  /\ diags = {}
  /\ exists = FALSE
  /\ records = 0
  /\ attempt = 0
  /\ applied = {}
  /\ before = tecton
  /\ clock = 1
  /\ fetches = 0
  /\ config = NullConfig
  /\ peer = NoPeer
  /\ WorkspaceIdle

\* GetFromTecton(&state) when the command prints `answer`
FetchAnswer ==
  /\ op = "none"
  /\ op' = "GetFromTecton"
  /\ LET r == GetFromTecton(state, answer)
     IN  /\ state' = r.state
         /\ exists' = r.exists
         /\ diags' = IF ~r.err THEN {}
                     ELSE IF answer.status = "none"
                       THEN {"Cannot read from Tecton without an ID"}
                     ELSE IF answer.status = "failed"
                       THEN {"Command to read Tecton roles failed"}
                       ELSE {"Failed to parse output"}
  /\ records' = RecordCount(answer.policies)
  /\ fetches' = Fetches(answer)
  /\ UNCHANGED <<tecton, tfstate, pc, plan, base, queue, issued, attempt, applied, before,
                 clock, config, answer, peer, wsVars>>

NextFetch == FetchAnswer

SpecFetch == InitFetch /\ [][NextFetch]_vars

\* ------------------------------------------- a declaration that is edited
\* The resource lifecycle of Spec without retries and Delete, where the
\* declaration of an imported resource may be changed in any attribute, the
\* principal included: no attribute of the schema requires replacement, so
\* Terraform plans an in-place Update.
UpdateEdited ==
  /\ Fresh({"Read"}) /\ tfstate # NoState /\ UNCHANGED <<config, answer, peer>>
  /\ tfstate.UserID # <<>> \/ tfstate.ServiceAccountID # <<>>
  /\ \E pl \in Plans : Update(PlanFor(pl))

NextEdit ==
  \/ CreateNew
  \/ ImportNew
  \/ ReadImported
  \/ UpdateEdited
  \/ ModifyRoleOk
  \/ ModifyRoleFail

SpecEdit == Init /\ [][NextEdit]_vars

\* ------------------------------------------- answers that repeat a role
\* An imported resource is read and then updated once; the get-roles answer
\* of the Update may list a role twice in an entry.
UpdateRepeated ==
  /\ Fresh({"Read"}) /\ tfstate # NoState /\ UNCHANGED <<config, answer, peer>>
  /\ \E pl \in PlansOf(tfstate) :
       UpdateFrom(PlanFor(pl),
                  {[status |-> "ok", policies |-> a] :
                     a \in RepeatedAnswers(tecton[ModelPrincipal(tfstate)])})

NextRepeat ==
  \/ ImportNew
  \/ ReadImported
  \/ UpdateRepeated
  \/ ModifyRoleOk
  \/ ModifyRoleFail

SpecRepeat == Init /\ [][NextRepeat]_vars

\* ============================================================== properties
PassOps == {"Create", "Update", "Delete"}

\* the last handler invoked is a pass whose fetch succeeded and which went on
\* to UpdateAccessPolicy
PassStarted ==
  /\ op \in PassOps
  /\ diags \cap {"Role Read Failure", "Access Policy Already Exists"} = {}

\* a policy object as grants: the admin value, the Baseline role set and the
\* role set of every workspace (none for a workspace the map does not name)
PolicyGrants(m) ==
  [admin |-> ValueBool(m.Admin),
   org |-> Range(m.AllWorkspaces),
   ws |-> [w \in WsNames |-> Range(MapGet(m.Workspaces, w))]]

\* the grants the principal of the pass holds in the backend now
Held == tecton[ModelPrincipal(plan)]

Scopes == {""} \cup WsNames
ScopeRoles(g, s) == IF s = "" THEN g.org ELSE g.ws[s]

\* roles that are effective on workspace w: Baseline roles and the roles on w
Effective(g, w) == g.org \cup g.ws[w]

IssuedCalls == {issued[i].call : i \in 1..Len(issued)}
IsAdminToggle(c) == c.role = "admin" /\ c.workspace = ""

RECURSIVE Replay(_, _)
\* the backend t after the successful calls of the log
Replay(t, log) ==
  IF log = <<>> THEN t
  ELSE LET c == Head(log).call
           p == PrincipalKey(c.userID, c.serviceAccountID)
       IN  Replay(IF Head(log).ok
                    THEN [t EXCEPT ![p] = ApplyRole(@, c.role, c.workspace, c.grant)]
                    ELSE t,
                  Tail(log))

\* number of calls UpdateAccessPolicy issues in this pass when none fails
PassCallCount ==
  Len(UpdateAccessPolicy(plan, base,
                         CHOOSE o \in PlanOrders(plan) : TRUE,
                         CHOOSE o \in StateOrders(plan, base) : TRUE))

\* C1: during a pass, after every mutation call, the roles the principal
\* holds in each scope (Baseline, each workspace) include every role that is
\* both desired and in the fetched actual set of the scope, and are among the
\* roles that are desired or in the fetched actual set of the scope.
PerScopeNoGap ==
  PassStarted =>
    \A s \in Scopes :
      LET D == ScopeRoles(PolicyGrants(plan), s)
          A == ScopeRoles(PolicyGrants(state), s)
          H == ScopeRoles(Held, s)
      IN  (D \cap A) \subseteq H /\ H \subseteq (D \cup A)

\* C1 witness: a mutation call has just succeeded in a scope in which some
\* role is both desired and actual
PerScopeNoGapWitness ==
  /\ PassStarted
  /\ issued # <<>>
  /\ issued[Len(issued)].ok
  /\ LET s == issued[Len(issued)].call.workspace
         D == ScopeRoles(PolicyGrants(plan), s)
         A == ScopeRoles(PolicyGrants(state), s)
     IN  D \cap A # {} /\ ScopeRoles(Held, s) # A

\* C2: at every instant of a pass, for every workspace w, the roles effective
\* on w (Baseline roles united with the roles on w) include every role that
\* was effective on w before the pass and is effective on w under the desired
\* policy.
EffectiveNoGap ==
  PassStarted =>
    \A w \in WsNames :
      (Effective(PolicyGrants(state), w) \cap Effective(PolicyGrants(plan), w))
        \subseteq Effective(Held, w)

\* C3: within one scope no grant call is issued after a revoke call, and a
\* revoke call of a scope is issued only after every grant of that scope's
\* diff was issued and returned success.
GrantBeforeRevoke ==
  \A j \in 1..Len(issued) :
    LET c == issued[j].call
    IN  (~c.grant /\ ~IsAdminToggle(c)) =>
          /\ \A i \in 1..Len(issued) :
               (i > j /\ issued[i].call.workspace = c.workspace
                      /\ ~IsAdminToggle(issued[i].call)) => ~issued[i].call.grant
          /\ \A r \in Range(SliceDifference(
                              IF c.workspace = "" THEN plan.AllWorkspaces
                                                  ELSE MapGet(plan.Workspaces, c.workspace),
                              IF c.workspace = "" THEN base.AllWorkspaces
                                                  ELSE MapGet(base.Workspaces, c.workspace))) :
               \E i \in 1..(j - 1) :
                 /\ issued[i].ok
                 /\ issued[i].call.grant
                 /\ issued[i].call.role = r
                 /\ issued[i].call.workspace = c.workspace

\* C3 witness: a revoke was issued in a scope after a grant in that scope
GrantBeforeRevokeWitness ==
  \E i, j \in 1..Len(issued) :
    /\ i < j
    /\ issued[i].call.grant /\ ~IsAdminToggle(issued[i].call)
    /\ ~issued[j].call.grant
    /\ issued[i].call.workspace = issued[j].call.workspace

\* C4: when a pass ends and every mutation call of it succeeded, the grants
\* of the principal in the backend equal the desired policy: admin value,
\* Baseline role set and the role set of every workspace, none for a
\* workspace the desired policy does not name.
Convergence ==
  (PassStarted /\ pc = "idle" /\ diags = {}) => Held = PolicyGrants(plan)

\* C4 witness: a pass ended without error after a grant and a revoke
ConvergenceWitness ==
  /\ PassStarted /\ pc = "idle" /\ diags = {}
  /\ \E c \in IssuedCalls : c.grant /\ ~IsAdminToggle(c)
  /\ \E c \in IssuedCalls : ~c.grant /\ ~IsAdminToggle(c)
  /\ Held # NoGrants

\* C5: a pass whose desired policy equals the fetched actual policy (admin
\* value, Baseline role set, role set per workspace) issues no mutation call,
\* also when the declaration leaves admin unset.
Idempotence ==
  (PassStarted /\ PolicyGrants(plan) = PolicyGrants(state)) =>
    (issued = <<>> /\ queue = <<>>)

\* C6: a pass issues a mutation of the unscoped admin capability exactly when
\* the desired admin value differs from the actual one; it is a grant when
\* the desired value is true and a revoke when it is false.
AdminToggle ==
  PassStarted =>
    LET toggles == {c \in IssuedCalls \cup Range(queue) : IsAdminToggle(c)}
    IN  /\ (toggles # {}) <=> (ValueBool(plan.Admin) # ValueBool(state.Admin))
        /\ \A c \in toggles : c.grant = ValueBool(plan.Admin)

\* C7: a Create to which the fetch reported exists = true ends with the
\* 'Access Policy Already Exists' error, has issued no mutation call and
\* records no resource state; Create issues mutation calls only when the
\* fetch reported exists = false.
CreationGuard ==
  op = "Create" =>
    /\ exists => /\ diags = {"Access Policy Already Exists"}
                 /\ issued = <<>> /\ queue = <<>>
                 /\ tfstate = NoState
                 /\ tecton = before
    /\ (issued # <<>> \/ queue # <<>>) => ~exists

\* C7 witness: a Create was refused for a principal that holds a grant
CreationGuardWitness ==
  /\ op = "Create" /\ exists /\ records > 0
  /\ "Access Policy Already Exists" \in diags
  /\ tecton[ModelPrincipal(plan)] # NoGrants

\* the last handler invoked has fetched the grants without error
FetchSucceeded ==
  /\ op \in PassOps \cup {"Read"}
  /\ diags \cap {"Role Read Failure", "Failed to read Tecton roles", "Invalid ID prefix"} = {}

\* C8: the exists flag of a fetch is true exactly when the backend's answer
\* holds at least one role grant record, and exists = false implies that the
\* fetched policy is the empty policy.
ExistsIffGrantRecord ==
  FetchSucceeded =>
    /\ exists <=> records > 0
    /\ ~exists => PolicyGrants(state) = NoGrants

\* C9: a mutation call that returns an error is the last call of its pass,
\* the handler ends with an error diagnostic, and the backend holds exactly
\* what the successful calls before it applied (nothing is undone).
AbortOnFirstFailure ==
  /\ \A i \in 1..Len(issued) :
       ~issued[i].ok => /\ i = Len(issued)
                        /\ pc = "idle" /\ queue = <<>>
                        /\ diags \cap {"Access Policy Creation Failure",
                                       "Unable to update acess policy",
                                       "Unable to delete acess policy"} # {}
  /\ tecton = Replay(before, issued)

\* C9 witness: a call failed after another call had changed the backend, and
\* calls of the pass were still to come
AbortOnFirstFailureWitness ==
  /\ Len(issued) >= 2
  /\ ~issued[Len(issued)].ok
  /\ tecton # before
  /\ Len(issued) < PassCallCount

\* C10 (first part): when an update or delete is invoked again after a pass
\* that a mutation failure aborted, none of the calls that already succeeded
\* is issued again.
RetryRepeatsNothing ==
  (op \in {"Update", "Delete"} /\ attempt > 1) =>
    \A c \in IssuedCalls \cup Range(queue) : c \notin applied

\* the error diagnostics of a pass that a failed mutation call aborted
MutationFailures ==
  {"Access Policy Creation Failure", "Unable to update acess policy",
   "Unable to delete acess policy"}

\* C11: when Create is invoked again for the same declaration after a Create
\* pass that a mutation failure aborted with at least one grant applied, and
\* the fetch and every mutation call of the new invocation succeed, the
\* invocation ends without error and the grants of the principal equal the
\* desired policy.
CreateRetryConverges ==
  (/\ op = "Create" /\ attempt > 1 /\ pc = "idle"
   /\ \E c \in applied : c.grant
   /\ "Role Read Failure" \notin diags
   /\ \A i \in 1..Len(issued) : issued[i].ok)
    => (diags = {} /\ Held = PolicyGrants(plan))

\* C12: a create, update or delete pass issues mutation calls only after it
\* has run the get-roles command; the policy it fetched is what the backend
\* held when the pass started, and the object the diffs are computed against
\* holds that fetched policy, not the recorded state; a pass whose fetch
\* failed reports 'Role Read Failure' only and issues no mutation call.
FetchFirst ==
  op \in PassOps =>
    /\ (issued # <<>> \/ queue # <<>>) => (fetches = 1 /\ PassStarted)
    /\ PassStarted => /\ fetches = 1
                      /\ PolicyGrants(state) = before[ModelPrincipal(plan)]
                      /\ PolicyGrants(base) = PolicyGrants(state)
    /\ "Role Read Failure" \in diags =>
          /\ diags = {"Role Read Failure"}
          /\ issued = <<>> /\ queue = <<>>
          /\ tecton = before

\* C12 witness: an Update invoked again is issuing calls while the recorded
\* state holds another policy than the one just fetched
FetchFirstWitness ==
  /\ op = "Update" /\ attempt > 1 /\ pc = "running"
  /\ issued # <<>>
  /\ tfstate # NoState
  /\ PolicyGrants(tfstate) # PolicyGrants(state)

\* C14: a delete pass has the empty desired policy (no admin, no Baseline
\* role, no workspace role), issues no grant call, and when it ends without
\* error the principal holds no admin capability and no role in any scope.
DeleteToNothing ==
  op = "Delete" =>
    /\ PolicyGrants(plan) = NoGrants
    /\ \A c \in IssuedCalls \cup Range(queue) : ~c.grant
    /\ (pc = "idle" /\ diags = {}) => (Held = NoGrants /\ tfstate = NoState)

\* C14 witness: a delete pass ended without error for a principal that held
\* a role before it
DeleteToNothingWitness ==
  /\ op = "Delete" /\ pc = "idle" /\ diags = {}
  /\ issued # <<>>
  /\ \E s \in Scopes : ScopeRoles(before[ModelPrincipal(plan)], s) # {}

\* C15: when the pass of a Create or an Update was aborted by a mutation
\* error, the operation has reported the error and the recorded state was
\* not written by this invocation: no state is recorded, or the recorded
\* last_updated is not the time of this invocation.
StateAdvancesOnSuccessOnly ==
  (op \in {"Create", "Update"} /\ pc = "idle" /\ diags \cap MutationFailures # {})
    => (tfstate = NoState \/ tfstate.LastUpdated # clock)

\* C18: a Read of an imported id that starts with neither "user-" nor
\* "service-" ends with the 'Invalid ID prefix' error only, has run no
\* get-roles command and no mutation call, leaves the backend as it was and
\* records nothing beyond the imported id.
InvalidIDPrefix ==
  (/\ op = "Read" /\ tfstate # NoState
   /\ ~HasPrefix(tfstate.ID, UserPrefix) /\ ~HasPrefix(tfstate.ID, ServicePrefix))
    => /\ diags = {"Invalid ID prefix"}
       /\ fetches = 0
       /\ issued = <<>> /\ queue = <<>>
       /\ tecton = before
       /\ tfstate = [NullModel EXCEPT !.ID = tfstate.ID]

\* C18 witness: the Read of an imported id without a known prefix has ended
InvalidIDPrefixWitness ==
  /\ op = "Read" /\ pc = "idle"
  /\ tfstate # NoState
  /\ ~HasPrefix(tfstate.ID, UserPrefix) /\ ~HasPrefix(tfstate.ID, ServicePrefix)
  /\ Len(tfstate.ID) > 0

\* the calls of the pass in the order of issue: those issued and those still
\* to be issued
PassCalls == [i \in 1..Len(issued) |-> issued[i].call] \o queue

\* position of a call in the scope processing order: the admin toggle, the
\* Baseline scope, a workspace of the desired map, a workspace of the actual
\* map only
ScopeRank(c) ==
  IF IsAdminToggle(c) THEN 0
  ELSE IF c.workspace = "" THEN 1
  ELSE IF c.workspace \in DOMAIN plan.Workspaces THEN 2
  ELSE 3

\* Desired {admin:false, baseline:[viewer], workspaces:{dev:[operator,editor]}}
ExampleDesired(m) ==
  /\ m.Admin = BoolValue(FALSE)
  /\ m.AllWorkspaces = <<"viewer">>
  /\ m.Workspaces = [w \in {"dev"} |-> <<"operator", "editor">>]

\* Actual {admin:true, baseline:[], workspaces:{dev:[editor]}}
ExampleActual(m) ==
  /\ m.Admin = BoolValue(TRUE)
  /\ m.AllWorkspaces = <<>>
  /\ m.Workspaces = [w \in {"dev"} |-> <<"editor">>]

\* revoke admin, grant viewer on Baseline, grant operator on dev
ExampleCalls ==
  <<Call(plan.UserID, plan.ServiceAccountID, "admin", "", FALSE),
    Call(plan.UserID, plan.ServiceAccountID, "viewer", "", TRUE),
    Call(plan.UserID, plan.ServiceAccountID, "operator", "dev", TRUE)>>

\* C13: in every pass the admin toggle, if any, is the first call, every
\* Baseline call precedes every workspace call, and every call on a workspace
\* of the desired map precedes every call on a workspace that only the actual
\* map names; for the example policies the calls are exactly revoke admin,
\* grant viewer on Baseline, grant operator on dev.
ScopeOrder ==
  PassStarted =>
    /\ \A i \in 1..Len(PassCalls) : IsAdminToggle(PassCalls[i]) => i = 1
    /\ \A i, j \in 1..Len(PassCalls) :
         i < j => ScopeRank(PassCalls[i]) <= ScopeRank(PassCalls[j])
    /\ (ExampleDesired(plan) /\ ExampleActual(base)) =>
         /\ Len(issued) <= Len(ExampleCalls)
         /\ \A i \in 1..Len(issued) : issued[i].call = ExampleCalls[i]
         /\ (\A i \in 1..Len(issued) : issued[i].ok) => PassCalls = ExampleCalls

\* C13 witness: the pass of the example has ended after its three calls
ScopeOrderWitness ==
  /\ PassStarted /\ pc = "idle" /\ diags = {}
  /\ ExampleDesired(plan) /\ ExampleActual(base)
  /\ Len(issued) = 3

\* the role lists a declaration writes
DeclaredLists(cfg) ==
  (IF cfg.all_workspaces.known THEN {cfg.all_workspaces.value} ELSE {})
  \cup (IF cfg.workspaces.known
         THEN {cfg.workspaces.value[w] : w \in DOMAIN cfg.workspaces.value} ELSE {})

NoPrincipalOrBoth(cfg) == cfg.user_id.known = cfg.service_account_id.known
NothingGranted(cfg) ==
  ~cfg.admin.known /\ ~cfg.all_workspaces.known /\ ~cfg.workspaces.known
UnknownRole(cfg) ==
  \E l \in DeclaredLists(cfg) : \E i \in DOMAIN l : l[i] \notin Range(validRoles)
RepeatedRole(cfg) ==
  \E l \in DeclaredLists(cfg) : Cardinality(Range(l)) < Len(l)

\* C16: a declaration with neither or both of user_id / service_account_id,
\* with none of admin / all_workspaces / workspaces, with a role outside the
\* valid roles or with a role repeated in one list is rejected with an error
\* by the validation: no handler is invoked for it, no get-roles command and
\* no mutation call is run, the backend and the recorded state are untouched.
ConfigRejected ==
  (/\ op # "none"
   /\ \/ NoPrincipalOrBoth(config) \/ NothingGranted(config)
      \/ UnknownRole(config) \/ RepeatedRole(config))
    => /\ op = "ValidateResourceConfig"
       /\ diags # {}
       /\ fetches = 0
       /\ issued = <<>> /\ queue = <<>>
       /\ tecton = before
       /\ tfstate = NoState

\* C16 witness: a declaration was rejected whose only fault is a role
\* repeated in a list of the workspaces map
ConfigRejectedWitness ==
  /\ op = "ValidateResourceConfig"
  /\ ~NoPrincipalOrBoth(config) /\ ~UnknownRole(config)
  /\ config.workspaces.known
  /\ \E w \in DOMAIN config.workspaces.value :
       Cardinality(Range(config.workspaces.value[w])) < Len(config.workspaces.value[w])
  /\ diags = {"Duplicate List Value"}

\* C17: the id a successful Create records is "user-" followed by the user
\* id, or "service-" followed by the service account id, and the Read of a
\* state imported by that id accepts the id and sets the principal field of
\* the same kind to the same id, leaving the other one empty.
IdRoundTrip ==
  /\ (op = "Create" /\ pc = "idle" /\ diags = {}) =>
        tfstate.ID = IF plan.UserID # <<>> THEN UserPrefix \o plan.UserID
                                           ELSE ServicePrefix \o plan.ServiceAccountID
  /\ op = "Read" =>
        /\ "Invalid ID prefix" \notin diags
        /\ state.UserID = plan.UserID
        /\ state.ServiceAccountID = plan.ServiceAccountID
        /\ diags = {} => /\ tfstate.UserID = plan.UserID
                         /\ tfstate.ServiceAccountID = plan.ServiceAccountID
                         /\ tfstate.ID = plan.ID

\* C17 witness: the resource of a user whose id is itself "service-" was
\* created, imported by its id and read
IdRoundTripWitness ==
  /\ op = "Read" /\ diags = {}
  /\ plan.UserID = ServicePrefix
  /\ tfstate.ID = UserPrefix \o ServicePrefix

\* C19: when a Read has refreshed a resource that a Create or an Update
\* applied without error, the recorded admin, all_workspaces and workspaces
\* equal the declared ones, value for value and element for element.
DeclareApplyRead ==
  (op = "Read" /\ pc = "idle" /\ diags = {} /\ tfstate.LastUpdated # 0) =>
    /\ tfstate.Admin = plan.Admin
    /\ tfstate.AllWorkspaces = plan.AllWorkspaces
    /\ tfstate.Workspaces = plan.Workspaces

\* C20: an Update of a workspace whose plan differs from the recorded state
\* in name or in live ends with the 'Error Updating Workspace' error, has
\* run no command, and leaves the backend workspaces, the prefetched
\* workspace list and the recorded state as they were.
WorkspaceImmutable ==
  (/\ wsOp = "Update"
   /\ (wsPlan.Name # wsBefore.state.Name \/ wsPlan.Live # wsBefore.state.Live))
    => /\ wsDiags = {"Error Updating Workspace"}
       /\ wsCmds = <<>>
       /\ workspaces = wsBefore.workspaces
       /\ WorkspaceData = wsBefore.WorkspaceData
       /\ wsState = wsBefore.state

\* C20 witness: an Update that changes only live of a workspace that exists
\* was refused
WorkspaceImmutableWitness ==
  /\ wsOp = "Update"
  /\ wsPlan.Name = wsBefore.state.Name
  /\ wsPlan.Live # wsBefore.state.Live
  /\ wsPlan.Name \in workspaces.Lives \cup workspaces.Devs
  /\ "Error Updating Workspace" \in wsDiags

\* an imported state whose Read has not succeeded yet: only the id is set
ImportPending ==
  /\ wsState.Name = ""
  /\ \/ wsOp = "ImportState"
     \/ wsOp = "Read" /\ wsDiags # {}

\* C21: in every recorded workspace state the id equals the name; Create
\* records the planned name as id and name, and a successful Read of an
\* imported state (name empty) records the imported id as name, so import
\* followed by Read gives the name and id that Create of that name gives.
\* Only the state between ImportState and its successful Read has no name.
WorkspaceIdIsName ==
  /\ (wsState # NoState /\ ~ImportPending) => wsState.ID = wsState.Name /\ wsState.Name # ""
  /\ (wsOp = "Create" /\ wsDiags = {}) => wsState.ID = wsPlan.Name /\ wsState.Name = wsPlan.Name
  /\ (wsOp = "Read" /\ wsDiags = {} /\ wsBefore.state.Name = "")
       => wsState.ID = wsBefore.state.ID /\ wsState.Name = wsBefore.state.ID

\* C21 witness: the Read of an imported workspace has succeeded
WorkspaceIdIsNameWitness ==
  /\ wsOp = "Read"
  /\ wsDiags = {}
  /\ wsBefore.state # NoState
  /\ wsBefore.state.Name = ""
  /\ wsState.Name = "dev"

\* the roles UpdateWorkspace grants / revokes, as sets
QueueRoles(grant) == {queue[i].role : i \in {j \in DOMAIN queue : queue[j].grant = grant}}

\* C22: for every two role lists desired and actual, in any order, with
\* repetitions and unrecognized role strings, the roles to grant are exactly
\* the roles in desired and not in actual and the roles to revoke exactly
\* the roles in actual and not in desired; so diff(X,X) is empty on both
\* sides, diff(X,{}) grants X and revokes nothing, diff({},X) revokes X and
\* grants nothing, and the sets depend on the elements of the lists only.
DiffIsSetDifference ==
  op = "UpdateWorkspace" =>
    LET desired == plan.AllWorkspaces
        actual == base.AllWorkspaces
    IN  /\ Range(SliceDifference(desired, actual)) = Range(desired) \ Range(actual)
        /\ Range(SliceDifference(actual, desired)) = Range(actual) \ Range(desired)
        /\ QueueRoles(TRUE) = Range(desired) \ Range(actual)
        /\ QueueRoles(FALSE) = Range(actual) \ Range(desired)
        /\ Range(desired) = Range(actual) => queue = <<>>
        /\ actual = <<>> => QueueRoles(TRUE) = Range(desired) /\ QueueRoles(FALSE) = {}
        /\ desired = <<>> => QueueRoles(TRUE) = {} /\ QueueRoles(FALSE) = Range(actual)

\* C22 witness: lists in different orders that share an unrecognized role;
\* one role is granted and one revoked
DiffIsSetDifferenceWitness ==
  /\ op = "UpdateWorkspace"
  /\ plan.AllWorkspaces = <<"owner", "custom">>
  /\ base.AllWorkspaces = <<"custom", "viewer">>
  /\ Len(queue) = 2
  /\ queue[1].role = "owner" /\ queue[1].grant
  /\ queue[2].role = "viewer" /\ ~queue[2].grant

\* number of positions of the list s that hold x
Count(s, x) == Cardinality({i \in DOMAIN s : s[i] = x})

\* the role records of the answer in entries of resource type `type` named
\* `name` that grant `role`, as positions <<entry, record>>
AnswerRecords(type, name, role) ==
  {<<k, i>> \in (DOMAIN answer.policies) \X (1..MaxFetchRecords) :
      /\ answer.policies[k].ResourceType = type
      /\ answer.policies[k].WorkspaceName = name
      /\ i \in DOMAIN answer.policies[k].RolesGranted
      /\ answer.policies[k].RolesGranted[i].Role = role}

\* C25: the policy a successful fetch returns is determined by the records
\* of the answer alone, whatever the state object held: admin is true iff an
\* ORGANIZATION record grants admin; all_workspaces holds exactly the
\* non-admin roles of the ORGANIZATION records, one element per record;
\* workspaces[w] holds exactly the roles of the WORKSPACE records named w, and
\* a workspace without record is absent; the assignment sources of a record
\* play no part and records of other resource types add nothing.
FetchAggregates ==
  (op = "GetFromTecton" /\ diags = {}) =>
    /\ state.Admin.known
    /\ state.Admin.value <=> AnswerRecords("ORGANIZATION", "", "admin") # {}
    /\ Count(state.AllWorkspaces, "admin") = 0
    /\ \A r \in FetchRoles \ {"admin"} :
         Count(state.AllWorkspaces, r) = Cardinality(AnswerRecords("ORGANIZATION", "", r))
    /\ Range(state.AllWorkspaces) \subseteq FetchRoles
    /\ DOMAIN state.Workspaces =
         {w \in WsNames : \E r \in FetchRoles : AnswerRecords("WORKSPACE", w, r) # {}}
    /\ \A w \in DOMAIN state.Workspaces :
         /\ Range(state.Workspaces[w]) \subseteq FetchRoles
         /\ \A r \in FetchRoles :
              Count(state.Workspaces[w], r) = Cardinality(AnswerRecords("WORKSPACE", w, r))

\* C25 witness: the state object held admin, a Baseline role and a role on
\* prod; the answer has an inherited Baseline role, a role on dev and a
\* record of another resource type
FetchAggregatesWitness ==
  /\ op = "GetFromTecton" /\ diags = {}
  /\ tfstate.Admin = BoolValue(TRUE)
  /\ Len(answer.policies) = 2
  /\ answer.policies[1] = [ResourceType |-> "ORGANIZATION", WorkspaceName |-> "",
                           RolesGranted |-> <<RoleGranted("viewer", <<"INHERITED">>)>>]
  /\ answer.policies[2].ResourceType = "FEATURE_VIEW"
  /\ answer.policies[2].RolesGranted # <<>>
  /\ state.Admin = BoolValue(FALSE)
  /\ state.AllWorkspaces = <<"viewer">>
  /\ state.Workspaces = <<>>

\* the role lists of the fetched policy: all_workspaces and every workspace
FetchedLists == {state.AllWorkspaces} \cup {state.Workspaces[w] : w \in DOMAIN state.Workspaces}

\* C26: in every policy a successful fetch returns, whatever the records of
\* the answer, admin is not an element of all_workspaces nor of the role list
\* of any workspace (so that no call with role admin is issued for a scope's
\* role set).
AdminNeverInScope ==
  (op = "GetFromTecton" /\ diags = {}) =>
    \A l \in FetchedLists : "admin" \notin Range(l)

\* the policy "Map states to objects" builds from the answer, before the sort
Aggregated ==
  MapPolicies([NullModel EXCEPT !.Admin = BoolValue(FALSE)], answer.policies, 1)

\* the lists before and after the sort, scope by scope
SortedPairs ==
  {<<Aggregated.AllWorkspaces, state.AllWorkspaces>>}
    \cup {<<Aggregated.Workspaces[w], state.Workspaces[w]>> : w \in DOMAIN state.Workspaces}

\* C27: every role list a successful fetch returns is a permutation of the
\* roles aggregated for its scope, and the valid roles in it appear in
\* non-decreasing order viewer < operator < editor < owner, for every order
\* of the answer and also when the list holds unrecognized role strings.
CanonicalOrder ==
  (op = "GetFromTecton" /\ diags = {}) =>
    \A pair \in SortedPairs :
      LET pre == pair[1]
          post == pair[2]
      IN  /\ Len(post) = Len(pre)
          /\ \A r \in FetchRoles : Count(post, r) = Count(pre, r)
          /\ \A i, j \in DOMAIN post :
               (i < j /\ IsValidRole(post[i]) /\ IsValidRole(post[j]))
                 => RoleToLevel(post[i]) <= RoleToLevel(post[j])

PassCallsAll == IssuedCalls \cup Range(queue)

\* C29: every mutation call of a pass addresses the principal whose policy
\* the pass fetched at its start, also in an update whose plan names another
\* user_id or service_account_id than the recorded state.
SinglePrincipal ==
  PassStarted =>
    \A c \in PassCallsAll :
      PrincipalKey(c.userID, c.serviceAccountID) = ModelPrincipal(state)

\* C30: in every recorded state that names a principal, after any sequence of
\* create, import, read and update, the id is "user-" followed by user_id when
\* user_id is set and "service-" followed by service_account_id otherwise.
IdNamesPrincipal ==
  (tfstate # NoState /\ (tfstate.UserID # <<>> \/ tfstate.ServiceAccountID # <<>>)) =>
    tfstate.ID = (IF tfstate.UserID # <<>> THEN UserPrefix \o tfstate.UserID
                  ELSE ServicePrefix \o tfstate.ServiceAccountID)

\* the calls of this invocation in order: those issued, then those still to
\* be issued
PassSeq == [i \in 1..Len(issued) |-> issued[i].call] \o queue

\* C23: every non-admin call of a pass is a grant of a role that is desired
\* and not in the fetched actual set of its scope, or a revoke of a role that
\* is in the fetched actual set and not desired; no role is granted and
\* revoked in one scope, and no scope and role is the subject of two calls of
\* one pass, also when the answer lists a role twice for a scope.
MinimalMutations ==
  PassStarted =>
    LET D == PolicyGrants(plan)
        A == PolicyGrants(state)
        roleCalls == {i \in DOMAIN PassSeq : ~IsAdminToggle(PassSeq[i])}
    IN  /\ \A i \in roleCalls :
             LET c == PassSeq[i]
             IN  IF c.grant
                   THEN c.role \in ScopeRoles(D, c.workspace) \ ScopeRoles(A, c.workspace)
                   ELSE c.role \in ScopeRoles(A, c.workspace) \ ScopeRoles(D, c.workspace)
        /\ \A i, j \in roleCalls :
             (i # j /\ PassSeq[i].workspace = PassSeq[j].workspace)
               => PassSeq[i].role # PassSeq[j].role

\* the pass has not been cut short by a failed call
PassUncut == PassStarted /\ (pc = "running" \/ issued = <<>> \/ issued[Len(issued)].ok)

\* C24: a workspace that has roles in the fetched actual policy and is not in
\* the desired map is the subject of no grant, and the pass revokes its
\* actual roles one by one, once: its calls are one revoke per element of the
\* fetched role list, in the order of the list.  A workspace that is in both
\* maps is handled once, by the calls of its own diff, and not again by the
\* revoke-only loop.
DroppedRevokeOnly ==
  PassStarted =>
    \A w \in DOMAIN state.Workspaces :
      LET onW(c) == c.workspace = w
          calls == SelectSeq(PassSeq, onW)
      IN  IF w \notin DOMAIN plan.Workspaces
            THEN /\ \A i \in DOMAIN calls : ~calls[i].grant
                 /\ PassUncut =>
                      /\ Len(calls) = Len(state.Workspaces[w])
                      /\ \A i \in DOMAIN calls : calls[i].role = state.Workspaces[w][i]
            ELSE PassUncut =>
                   /\ Len(calls) = Len(SliceDifference(plan.Workspaces[w], state.Workspaces[w]))
                                     + Len(SliceDifference(state.Workspaces[w], plan.Workspaces[w]))
                   /\ \A i \in DOMAIN calls :
                        IF calls[i].grant
                          THEN calls[i].role \notin Range(state.Workspaces[w])
                          ELSE calls[i].role \notin Range(plan.Workspaces[w])

\* C24 witness: a finished Update has revoked the role of a workspace that the
\* plan does not name, and has handled a workspace that both maps name
DroppedRevokeOnlyWitness ==
  /\ op = "Update" /\ pc = "idle" /\ diags = {}
  /\ DOMAIN state.Workspaces \ DOMAIN plan.Workspaces # {}
  /\ \E i \in DOMAIN issued :
       /\ issued[i].call.workspace \in DOMAIN state.Workspaces \ DOMAIN plan.Workspaces
       /\ ~issued[i].call.grant
       /\ issued[i].ok

\* the name a Read looked up: the name of the state, or its id when the
\* state was imported
LookedUp == IF wsBefore.state.Name = "" THEN wsBefore.state.ID ELSE wsBefore.state.Name

InLives(name) == \E i \in DOMAIN WorkspaceData.Lives : WorkspaceData.Lives[i] = name
InDevs(name) == \E i \in DOMAIN WorkspaceData.Devs : WorkspaceData.Devs[i] = name

\* C36: the lookup of a name in the snapshot reports an error exactly when
\* the name is in neither the live nor the development list; otherwise the
\* workspace is live when the name is in the live list only, and not live
\* when it is in the development list, also when it is in both.
LookupResult ==
  wsOp = "Read" =>
    /\ (wsDiags # {}) <=> (~InLives(LookedUp) /\ ~InDevs(LookedUp))
    /\ wsDiags # {} => wsDiags = {"Error Reading Workspace"} /\ wsState = wsBefore.state
    /\ wsDiags = {} =>
         /\ wsState.Live.known
         /\ InDevs(LookedUp) => ~wsState.Live.value
         /\ (InLives(LookedUp) /\ ~InDevs(LookedUp)) => wsState.Live.value

\* C36 witness: a workspace recorded as live whose name is in both lists of
\* the snapshot has been read as not live
LookupResultWitness ==
  /\ wsOp = "Read" /\ wsDiags = {}
  /\ wsBefore.state.Live = BoolValue(TRUE)
  /\ InLives(LookedUp) /\ InDevs(LookedUp)
  /\ wsState.Live = BoolValue(FALSE)

\* the commands of the last handler that list the workspaces
ListCommands == {i \in DOMAIN wsCmds : wsCmds[i].cmd = "list"}

\* C35: the workspace lists are fetched once, by Configure, the first
\* handler of a run; no handler of the workspace resource lists the
\* workspaces or changes the prefetched lists; and Read succeeds exactly
\* when the name is in the prefetched lists and reports the liveness they
\* give, whatever the backend holds by then.
SnapshotImmutable ==
  /\ wsOp = "Configure" => clock = 2 /\ Cardinality(ListCommands) = 1
  /\ wsOp \in {"Create", "ImportState", "Read", "Update", "Delete"} =>
       /\ WorkspaceData = wsBefore.WorkspaceData
       /\ ListCommands = {}
  /\ wsOp = "Read" =>
       /\ workspaces = wsBefore.workspaces
       /\ (wsDiags = {}) <=> (InLives(LookedUp) \/ InDevs(LookedUp))
       /\ wsDiags = {} => wsState.Live = BoolValue(~InDevs(LookedUp))

\* C35 witness: a workspace created after Configure is in the backend, and
\* Read has reported that there is no such workspace
SnapshotImmutableWitness ==
  /\ wsOp = "Read" /\ wsDiags = {"Error Reading Workspace"}
  /\ wsBefore.state # NoState
  /\ wsBefore.state.LastUpdated # 0
  /\ LookedUp \in workspaces.Lives \cup workspaces.Devs
  /\ ~InLives(LookedUp) /\ ~InDevs(LookedUp)

\* C34: a fetch that fails, because the object has no principal id, the
\* command fails or its output cannot be parsed, reports that no policy
\* exists and leaves every field of the object as it was; each of the three
\* causes makes the fetch fail, and without an id no command is run.
FailedFetchKeeps ==
  op = "GetFromTecton" =>
    /\ (diags # {}) <=> (answer.status # "ok")
    /\ (tfstate.UserID = <<>> /\ tfstate.ServiceAccountID = <<>>) =>
         diags = {"Cannot read from Tecton without an ID"} /\ fetches = 0
    /\ diags # {} =>
         /\ exists = FALSE
         /\ state = tfstate

\* C34 witness: the fetch for an object with admin, baseline and workspace
\* roles has failed
FailedFetchKeepsWitness ==
  /\ op = "GetFromTecton" /\ diags # {}
  /\ tfstate.Admin = BoolValue(TRUE)
  /\ tfstate.AllWorkspaces # <<>>
  /\ tfstate.Workspaces # <<>>
  /\ state = tfstate

\* C33: a step that ends in a Read leaves the grants of every principal as
\* they were and issues no assign-role or unassign-role call; the Read has
\* run get-roles once, or not at all when the id has neither prefix.
ReadOnlyFetches ==
  [][op' = "Read" =>
       /\ tecton' = tecton
       /\ queue' = <<>> /\ issued' = <<>> /\ pc' = "idle"
       /\ fetches' = IF diags' = {"Invalid ID prefix"} THEN 0 ELSE 1]_vars

\* C33 witness: the third Read in a row of a principal that holds a grant
\* has ended without error, and the grants are those from before it
ReadOnlyFetchesWitness ==
  /\ op = "Read" /\ attempt = 3 /\ diags = {} /\ fetches = 1
  /\ exists
  /\ tecton = before
  /\ \E p \in Principals : tecton[p] # NoGrants

\* number of role entries in the Baseline list and the workspace lists
RoleCount(m) ==
  Len(m.AllWorkspaces) + SumLen(m.Workspaces, DOMAIN m.Workspaces)

\* the roles the calls of the log grant (g = TRUE) or revoke in scope s
LogRoles(log, s, g) ==
  {log[i].call.role : i \in {j \in DOMAIN log : /\ log[j].call.workspace = s
                                                 /\ log[j].call.grant = g
                                                 /\ log[j].call.role # "admin"}}

\* the end of a pass and the number of its calls
PassEnds ==
  PassStarted =>
    /\ Len(issued) + Len(queue) <= 1 + RoleCount(plan) + RoleCount(state)
    /\ pc = "running" => queue # <<>> /\ \A i \in DOMAIN issued : issued[i].ok
    /\ (pc = "idle" /\ diags = {}) =>
         /\ queue = <<>>
         /\ \A i \in DOMAIN issued : issued[i].ok
         /\ \A s \in Scopes :
              LET D == ScopeRoles(PolicyGrants(plan), s)
                  A == ScopeRoles(PolicyGrants(state), s)
              IN  /\ LogRoles(issued, s, TRUE) = D \ A
                  /\ LogRoles(issued, s, FALSE) = A \ D
         /\ PolicyGrants(plan).admin # PolicyGrants(state).admin =>
              \E c \in IssuedCalls : IsAdminToggle(c) /\ c.grant = PolicyGrants(plan).admin
    /\ (pc = "idle" /\ diags # {}) =>
         /\ queue = <<>>
         /\ issued # <<>>
         /\ \A i \in DOMAIN issued : issued[i].ok <=> i < Len(issued)

\* C32: a pass that has calls to issue eventually ends; it ends without
\* error only after every call of every scope's diff was issued and
\* succeeded, and with an error only at the first call that failed; at any
\* moment the calls issued and still queued number at most 1 plus the role
\* entries of the desired and the fetched actual policy.
PassTerminates ==
  /\ []PassEnds
  /\ (pc = "running") ~> (pc = "idle")

\* C32 witness: a pass with three calls or more has issued them all and
\* ended without error
PassTerminatesWitness ==
  /\ PassStarted /\ pc = "idle" /\ diags = {}
  /\ Len(issued) >= 3
  /\ Len(issued) = 1 + RoleCount(plan) + RoleCount(state)

\* the no-gap bound of one pass: in every scope the roles held include the
\* roles that are desired and actual, and are among the desired or actual
NoGapFor(pl, st, held) ==
  \A s \in Scopes :
    LET D == ScopeRoles(PolicyGrants(pl), s)
        A == ScopeRoles(PolicyGrants(st), s)
        H == ScopeRoles(held, s)
    IN  (D \cap A) \subseteq H /\ H \subseteq (D \cup A)

\* a pass with the plan pl, the fetched state st and the log of calls, which
\* started on the backend t0, has changed the grants of its own principal
\* only, these are what its successful calls made of them, they keep the
\* no-gap bound, and they are the desired ones when the pass is over
\* without error
OwnPrincipalOnly(pl, st, log, t0, over) ==
  LET P == ModelPrincipal(pl)
  IN  /\ P \in Principals
      /\ \A i \in DOMAIN log :
           PrincipalKey(log[i].call.userID, log[i].call.serviceAccountID) = P
      /\ \A q \in Principals \ {P} : Replay(t0, log)[q] = t0[q]
      /\ tecton[P] = Replay(t0, log)[P]
      /\ NoGapFor(pl, st, tecton[P])
      /\ over => tecton[P] = PolicyGrants(pl)

\* C31: when the passes of two resources for different principals run at
\* the same time with their calls interleaved in any order, the grants of
\* each principal are changed by the calls of its own pass only, each pass
\* keeps the per-scope no-gap bound for its own principal, and a pass that
\* ends without error leaves its own principal with its desired policy.
PrincipalsIndependent ==
  /\ (PassStarted /\ op = "Update") =>
       OwnPrincipalOnly(plan, state, issued, before, pc = "idle" /\ diags = {})
  /\ (peer.pc # "none" /\ "Role Read Failure" \notin peer.diags) =>
       /\ OwnPrincipalOnly(peer.plan, peer.state, peer.issued, peer.before,
                           peer.pc = "done" /\ peer.diags = {})
       /\ tfstate # NoState => ModelPrincipal(peer.plan) # ModelPrincipal(tfstate)
  /\ (peer.pc = "none" /\ PassStarted /\ op = "Update") =>
       \A q \in Principals \ {ModelPrincipal(plan)} : tecton[q] = before[q]

\* C31 witness: the other pass started after a call of this pass had
\* changed the backend, has issued its calls and ended without error with
\* its principal at its desired policy, while this pass is still running
PrincipalsIndependentWitness ==
  /\ op = "Update" /\ pc = "running" /\ issued # <<>>
  /\ peer.pc = "done" /\ peer.diags = {} /\ peer.issued # <<>>
  /\ peer.before[ModelPrincipal(plan)] # before[ModelPrincipal(plan)]
  /\ tecton[ModelPrincipal(peer.plan)] # peer.before[ModelPrincipal(peer.plan)]
  /\ tecton[ModelPrincipal(peer.plan)] = PolicyGrants(peer.plan)

====
